---- MODULE Spec2Model ----
(***************************************************************************)
(* hns-ledger: the host side of the Ledger signing application for        *)
(* Handshake.  The module models                                           *)
(*   - the APDU status tables and the frame constants                      *)
(*     (lib/apdu/common.js), with the frame codec that uses them,          *)
(*   - the per-input signing data model LedgerInput (lib/ledger/input.js), *)
(*   - the protocol engine LedgerClient (lib/ledger/client.js) talking to  *)
(*     a device through device.exchange.                                   *)
(***************************************************************************)
EXTENDS Integers, Sequences, FiniteSets, TLC

VARIABLES
  resp,      \* a device response under status-word interpretation
  li,        \* the LedgerInput object (its fields and its caches)
  ctor,      \* outcome of the last LedgerInput construction
  obs,       \* what the accessors of li returned, per accessor
  procs,     \* the client operations (async calls) and their positions
  inflight,  \* the calls of device.exchange that have not returned yet
  wire,      \* every request handed to device.exchange, in order
  codec,     \* a message through the frame codec: its frames, the decoder
  cli        \* a run of bin/hsd-ledger: its arguments, position and device

vars == <<resp, li, ctor, obs, procs, inflight, wire, codec, cli>>

\* JavaScript values are records tagged by their type t; null, undefined
\* (also a missing property) and the empty string are the falsy ones.
Null == [t |-> "null"]
Undefined == [t |-> "undefined"]
EmptyString == [t |-> "string", s |-> ""]
Str(s) == [t |-> "string", s |-> s]

(***************************************************************************)
(* lib/apdu/common.js                                                      *)
(***************************************************************************)

CHANNEL_ID == 257    \* 0x0101
TAG_APDU == 5        \* 0x05
TAG_PING == 2        \* 0x02
MAX_BYTES == 64
MAX_DEPTH == 10

\* common.status, in source order (the order util.reverse walks the keys).
statusNames ==
  << "CACHE_FLUSH_ERROR", "CACHE_WRITE_ERROR", "CANNOT_ENCODE_ADDRESS",
     "CANNOT_ENCODE_XPUB", "CANNOT_INIT_BLAKE2B_CTX", "CANNOT_PEEK_SCRIPT_LEN",
     "CANNOT_READ_BIP32_PATH", "CANNOT_READ_INPUT_INDEX",
     "CANNOT_READ_INPUTS_LEN", "CANNOT_READ_OUTPUTS_LEN",
     "CANNOT_READ_OUTPUTS_SIZE", "CANNOT_READ_TX_VERSION",
     "CANNOT_READ_TX_LOCKTIME", "CANNOT_READ_SCRIPT_LEN",
     "CANNOT_READ_SIGHASH_TYPE", "CANNOT_UPDATE_UI", "CLA_NOT_SUPPORTED",
     "CONDITIONS_OF_USE_NOT_SATISFIED", "FAILED_TO_SIGN_INPUT",
     "FILE_NOT_FOUND", "INCORRECT_ADDR_PATH", "INCORRECT_INPUT_INDEX",
     "INCORRECT_LENGTH", "INCORRECT_LC", "INCORRECT_CDATA", "INCORRECT_P1",
     "INCORRECT_P2", "INCORRECT_PARAMETERS", "INCORRECT_PARSER_STATE",
     "INCORRECT_SIGHASH_TYPE", "INCORRECT_SIGNATURE_PATH",
     "INCORRECT_INPUTS_LEN", "INTERNAL_ERROR", "INS_NOT_SUPPORTED",
     "SECURITY_CONDITION_NOT_SATISFIED", "SUCCESS" >>

\* common.status: name -> status word (0x6f27 = 28455, ...).
status ==
  [ CACHE_FLUSH_ERROR               |-> 28455,  \* 0x6f27
    CACHE_WRITE_ERROR               |-> 28454,  \* 0x6f26
    CANNOT_ENCODE_ADDRESS           |-> 28436,  \* 0x6f14
    CANNOT_ENCODE_XPUB              |-> 28451,  \* 0x6f23
    CANNOT_INIT_BLAKE2B_CTX         |-> 28435,  \* 0x6f13
    CANNOT_PEEK_SCRIPT_LEN          |-> 28446,  \* 0x6f1e
    CANNOT_READ_BIP32_PATH          |-> 28437,  \* 0x6f15
    CANNOT_READ_INPUT_INDEX         |-> 28443,  \* 0x6f1b
    CANNOT_READ_INPUTS_LEN          |-> 28440,  \* 0x6f18
    CANNOT_READ_OUTPUTS_LEN         |-> 28441,  \* 0x6f19
    CANNOT_READ_OUTPUTS_SIZE        |-> 28442,  \* 0x6f1a
    CANNOT_READ_TX_VERSION          |-> 28438,  \* 0x6f16
    CANNOT_READ_TX_LOCKTIME         |-> 28439,  \* 0x6f17
    CANNOT_READ_SCRIPT_LEN          |-> 28445,  \* 0x6f1d
    CANNOT_READ_SIGHASH_TYPE        |-> 28444,  \* 0x6f1c
    CANNOT_UPDATE_UI                |-> 28456,  \* 0x6f28
    CLA_NOT_SUPPORTED               |-> 28160,  \* 0x6e00
    CONDITIONS_OF_USE_NOT_SATISFIED |-> 27013,  \* 0x6985
    FAILED_TO_SIGN_INPUT            |-> 28457,  \* 0x6f29
    FILE_NOT_FOUND                  |-> 27266,  \* 0x6a82
    INCORRECT_ADDR_PATH             |-> 28453,  \* 0x6f25
    INCORRECT_INPUT_INDEX           |-> 28447,  \* 0x6f1F
    INCORRECT_LENGTH                |-> 26369,  \* 0x6701
    INCORRECT_LC                    |-> 26368,  \* 0x6700
    INCORRECT_CDATA                 |-> 27264,  \* 0x6a80
    INCORRECT_P1                    |-> 27377,  \* 0x6af1
    INCORRECT_P2                    |-> 27378,  \* 0x6af2
    INCORRECT_PARAMETERS            |-> 27392,  \* 0x6b00
    INCORRECT_PARSER_STATE          |-> 28449,  \* 0x6f21
    INCORRECT_SIGHASH_TYPE          |-> 28448,  \* 0x6f20
    INCORRECT_SIGNATURE_PATH        |-> 28450,  \* 0x6f22
    INCORRECT_INPUTS_LEN            |-> 28452,  \* 0x6f24
    INTERNAL_ERROR                  |-> 111,    \* 0x6f
    INS_NOT_SUPPORTED               |-> 27904,  \* 0x6d00
    SECURITY_CONDITION_NOT_SATISFIED |-> 27010, \* 0x6982
    SUCCESS                         |-> 36864 ] \* 0x9000

\* common.errorByStatus: name -> message.
errorByStatus ==
  [ CACHE_FLUSH_ERROR               |-> "Error flushing internal cache",
    CACHE_WRITE_ERROR               |-> "Error writing to internal cache",
    CANNOT_ENCODE_ADDRESS           |-> "Cannot bech32 encode address",
    CANNOT_ENCODE_XPUB              |-> "Cannot base58 encode xpub",
    CANNOT_INIT_BLAKE2B_CTX         |-> "Cannot initialize blake2b context",
    CANNOT_PEEK_SCRIPT_LEN          |-> "Cannot peek input script length",
    CANNOT_READ_BIP32_PATH          |-> "Cannot read BIP32 path",
    CANNOT_READ_INPUT_INDEX         |-> "Cannot read index of input",
    CANNOT_READ_INPUTS_LEN          |-> "Cannot read input vector length",
    CANNOT_READ_OUTPUTS_LEN         |-> "Cannot read output vector length",
    CANNOT_READ_OUTPUTS_SIZE        |-> "Cannot read size of outputs vector",
    CANNOT_READ_TX_VERSION          |-> "Cannot read tx version",
    CANNOT_READ_TX_LOCKTIME         |-> "Cannot read tx locktime",
    CANNOT_READ_SCRIPT_LEN          |-> "Cannot read input script length",
    CANNOT_READ_SIGHASH_TYPE        |-> "Cannot read sighash type",
    CANNOT_UPDATE_UI                |-> "Cannot update Ledger UI",
    CLA_NOT_SUPPORTED               |->
      "Instruction not supported (check app on the device)",
    CONDITIONS_OF_USE_NOT_SATISFIED |-> "User rejected on-screen confirmation",
    FAILED_TO_SIGN_INPUT            |-> "Failed to sign input",
    FILE_NOT_FOUND                  |-> "File not found",
    INCORRECT_ADDR_PATH             |-> "Incorrect BIP44 address path",
    INCORRECT_CDATA                 |-> "Incorrect CDATA (command data)",
    INCORRECT_INPUT_INDEX           |->
      "Input index larger than inputs vector length",
    INCORRECT_INPUTS_LEN            |->
      "Inputs vector length is larger than device limit",
    INCORRECT_LENGTH                |-> "Incorrect length",
    INCORRECT_LC                    |-> "Incorrect LC (length of command data)",
    INCORRECT_P1                    |-> "Incorrect P1",
    INCORRECT_P2                    |-> "Incorrect P2",
    INCORRECT_PARAMETERS            |-> "Incorrect parameters (P1 or P2)",
    INCORRECT_PARSER_STATE          |-> "Incorrect parser state",
    INCORRECT_SIGHASH_TYPE          |-> "Incorrect sighash type",
    INCORRECT_SIGNATURE_PATH        |-> "Incorrect signature path",
    INS_NOT_SUPPORTED               |->
      "Instruction not supported (check app on the device)",
    INTERNAL_ERROR                  |-> "Internal error",
    SECURITY_CONDITION_NOT_SATISFIED |-> "Invalid security status",
    UNKNOWN_ERROR                   |-> "Unknown status code" ]

\* A slip of the table: the message of one status name is left out.
ErrorMessageDropped(name) ==
  IF name \in DOMAIN errorByStatus \ {"INS_NOT_SUPPORTED"}
    THEN Str(errorByStatus[name])
    ELSE Undefined

\* The property read common.errorByStatus[name].
ErrorMessage(name) ==
  IF name \in DOMAIN errorByStatus THEN Str(errorByStatus[name]) ELSE Undefined

\* util.reverse(obj): walks the keys in order and sets out[obj[key]] = key, so
\* the last key holding a value is the one kept for it.
Reverse(names, obj, val) ==
  LET hits == {i \in 1..Len(names) : obj[names[i]] = val}
  IN  IF hits = {} THEN Undefined
      ELSE Str(names[CHOOSE i \in hits : \A j \in hits : j <= i])

\* A slip: the walk over the keys stops before the last one.
statusByValSkipsLast(val) ==
  Reverse(SubSeq(statusNames, 1, Len(statusNames) - 1), status, val)

\* A slip: a status word the table does not hold is given the name of the
\* table's first key.
statusByValDefaulted(val) ==
  IF Reverse(statusNames, status, val) = Undefined
    THEN Str(statusNames[1])
    ELSE Reverse(statusNames, status, val)

\* common.statusByVal[val].
statusByVal(val) == Reverse(statusNames, status, val)

\* The error a response with a non-success status word is turned into: the
\* named kind of the status word and its message, or the generic kind and
\* message for a status word the table does not hold, with the raw code.
StatusError(sw) ==
  LET name == statusByVal(sw)
      msg  == IF name = Undefined THEN Undefined ELSE ErrorMessage(name.s)
  IN  IF name = Undefined \/ msg = Undefined
        THEN [code |-> sw, kind |-> "UNKNOWN_ERROR",
              message |-> errorByStatus["UNKNOWN_ERROR"]]
        ELSE [code |-> sw, kind |-> name.s, message |-> msg.s]

(***************************************************************************)
(* Byte strings (Buffer) and the bufio encodings the code uses             *)
(***************************************************************************)

\* n bytes, each of value b.
Fill(n, b) == [i \in 1..n |-> b]

\* bufio writeU32 / writeU64: fixed width, little endian.
RECURSIVE LE(_, _)
LE(n, width) ==
  IF width = 0 THEN <<>> ELSE <<n % 256>> \o LE(n \div 256, width - 1)

\* The numbers of the model stay below 2^31; an unsigned 32-bit value with
\* the top bit set is held as its low 31 bits and the top bit (U32Index).
U32(n) == LE(n, 4)
U64(n) == LE(n, 8)

\* bufio encoding.sizeVarint (the 9-byte form starts above 2^32 - 1).
SizeVarint(n) ==
  IF n < 253 THEN 1 ELSE IF n <= 65535 THEN 3 ELSE 5

\* bufio writeVarint.
Varint(n) ==
  IF n < 253 THEN <<n>>
  ELSE IF n <= 65535 THEN <<253>> \o LE(n, 2)
  ELSE <<254>> \o LE(n, 4)

\* bufio writeVarBytes: a length prefix, then the bytes.
VarBytes(b) == Varint(Len(b)) \o b

RECURSIVE Concat(_)
Concat(ss) == IF ss = <<>> THEN <<>> ELSE Head(ss) \o Concat(Tail(ss))

(***************************************************************************)
(* The frame codec: an APDU message is carried in frames of MAX_BYTES      *)
(* bytes.  A frame starts with the channel id (2 bytes), the tag (1 byte)  *)
(* and the sequence index (2 bytes); the first frame then carries the      *)
(* 2-byte total length; the payload follows, zero-padded to the frame size.*)
(***************************************************************************)

\* A 2-byte number, big endian, and its reading.
BE2(n) == <<n \div 256, n % 256>>
ReadBE2(b, at) == b[at] * 256 + b[at + 1]

\* The bytes of a frame before its share of the message.
HeaderLen == 5

\* A frame's share: MAX_BYTES less the header.
BlockSize == MAX_BYTES - HeaderLen

FrameHeader(tag, seq) == BE2(CHANNEL_ID) \o <<tag>> \o BE2(seq)

\* The number of frames a message takes: the message and its 2-byte length
\* in blocks of BlockSize bytes.
FrameCount(message) == (Len(message) + 2 + BlockSize - 1) \div BlockSize

\* encode(message): the length, then the message, zero-padded to whole
\* blocks, each block behind a header with the next sequence index.
Encode(message, tag) ==
  LET n == FrameCount(message)
      body == BE2(Len(message)) \o message
      padded == body \o Fill(n * BlockSize - Len(body), 0)
  IN  [ i \in 1..n |->
          FrameHeader(tag, i - 1)
            \o SubSeq(padded, (i - 1) * BlockSize + 1, i * BlockSize) ]

\* The decoder: the sequence index it expects, the total length (known
\* after the first frame), the payload read, and its status: it wants more
\* frames, it has the message, or it failed.
DecoderInit ==
  [status |-> "more", seq |-> 0, total |-> 0, buf |-> <<>>, error |-> ""]

DecodeError(d, error) == [d EXCEPT !.status = "error", !.error = error]

\* A slip: the payload read is handed out with the padding of its last
\* frame.
ReassembledPadded(buf, total) == buf

\* The message once the payload read reaches the total length: the first
\* total bytes.
Reassembled(buf, total) == SubSeq(buf, 1, total)

\* The decoder takes the payload of a frame.
DecodeTake(d, total, chunk) ==
  LET buf == d.buf \o chunk
  IN  IF Len(buf) >= total
        THEN [d EXCEPT !.status = "done", !.seq = d.seq + 1, !.total = total,
                       !.buf = Reassembled(buf, total)]
        ELSE [d EXCEPT !.seq = d.seq + 1, !.total = total, !.buf = buf]

\* decode, one frame: a frame shorter than its header, another channel id,
\* another tag or a sequence index out of order is a protocol error.
DecodeFrame(d, frame, tag) ==
  IF Len(frame) < HeaderLen THEN DecodeError(d, "Frame too short")
  ELSE IF ReadBE2(frame, 1) # CHANNEL_ID THEN DecodeError(d, "Invalid channel")
  ELSE IF frame[3] # tag THEN DecodeError(d, "Invalid tag")
  ELSE IF ReadBE2(frame, 4) # d.seq THEN DecodeError(d, "Invalid sequence")
  ELSE IF d.seq = 0
    THEN IF Len(frame) < HeaderLen + 2 THEN DecodeError(d, "Frame too short")
         ELSE DecodeTake(d, ReadBE2(frame, HeaderLen + 1),
                         SubSeq(frame, HeaderLen + 3, Len(frame)))
  ELSE DecodeTake(d, d.total, SubSeq(frame, HeaderLen + 1, Len(frame)))

(***************************************************************************)
(* hsd primitives as far as the code reads them                            *)
(***************************************************************************)

\* Script.hashType
HASHTYPE_ALL == 1
HASHTYPE_NONE == 2

\* Address: a version and a hash; script-hash is version 0 with a 32-byte
\* hash, public-key-hash is version 0 with a 20-byte hash.
Address(version, hash) == [t |-> "address", version |-> version, hash |-> hash]
IsScripthash(addr) == addr.version = 0 /\ Len(addr.hash) = 32

\* Buffer and Script objects, by their bytes.
Buffer(raw) == [t |-> "buffer", raw |-> raw]
IsBuffer(x) == x.t = "buffer"
Script(raw) == [t |-> "script", raw |-> raw]
IsScript(x) == x.t = "script"

\* Coin: the previous output (hash, index) and its address.
Coin(hash, index, value, address) ==
  [ t |-> "coin", hash |-> hash, index |-> index, value |-> value,
    address |-> address ]
IsCoin(x) == x.t = "coin"

\* The key hash of a public key (a 20-byte digest; the model keeps the digest
\* distinct for distinct keys by deriving it from the key's bytes).
KeyHash(publicKey) == Fill(20, publicKey.raw[2])

\* Script.fromPubkeyhash(hash): OP_DUP OP_BLAKE160 <hash> OP_EQUALVERIFY
\* OP_CHECKSIG.
ScriptFromPubkeyhash(hash) ==
  Script(<<118, 192, Len(hash)>> \o hash \o <<136, 172>>)

\* Outpoint.fromOptions({hash, index}) and its toKey (the raw outpoint).
Outpoint(hash, index) == [t |-> "outpoint", hash |-> hash, index |-> index]
OutpointKey(o) == [t |-> "key", raw |-> o.hash \o U32(o.index)]

\* KeyRing.fromPublic(publicKey).
KeyRing(publicKey) == [t |-> "ring", publicKey |-> publicKey, script |-> Null]

\* JavaScript truthiness: null, undefined, '' and the number 0 are falsy.
Truthy(x) ==
  /\ x.t \notin {"null", "undefined"}
  /\ x # EmptyString
  /\ x # [t |-> "number", n |-> 0]

(***************************************************************************)
(* util.parsePath: "m/44'/5353'/0'/0/0" -> indices.  A path string is held *)
(* as its root and its parts, a part being decimal digits with or without  *)
(* the hardening mark.  An index is an unsigned 32-bit number, held as its *)
(* low 31 bits (num) and its top bit (hard, the hardened flag).            *)
(***************************************************************************)

Index(num, hard) == [num |-> num, hard |-> hard]
Part(digits, hard) == [digits |-> digits, hard |-> hard]

PathString(root, parts) == [t |-> "string", root |-> root, parts |-> parts]
PathArray(indices) == [t |-> "array", indices |-> indices]
\* Paths that are numbers: 7, and 0, which is falsy.
PathOther == [t |-> "number", n |-> 7]
PathZero == [t |-> "number", n |-> 0]

IsPathString(p) == p.t = "string"
IsPathArray(p) == p.t = "array"

\* parseInt(part, 10)
RECURSIVE ParseInt(_)
ParseInt(digits) ==
  IF digits = <<>> THEN 0
  ELSE ParseInt(SubSeq(digits, 1, Len(digits) - 1)) * 10 + digits[Len(digits)]

\* Returns [ok, value]: the array of indices, hardened parts with the
\* hardened bit set, or a failure for a root other than m.
ParsePath(p) ==
  IF p.root # "m"
    THEN [ok |-> FALSE, value |-> Null]
    ELSE [ok |-> TRUE,
          value |-> PathArray([i \in 1..Len(p.parts) |->
                       Index(ParseInt(p.parts[i].digits), p.parts[i].hard)])]

(***************************************************************************)
(* LedgerInput (lib/ledger/input.js)                                       *)
(***************************************************************************)

Num(n) == [t |-> "number", n |-> n]

\* Errors: the class of the exception and its message; NoErr for a normal
\* return.
NoErr == [name |-> "", message |-> ""]
Err(name, message) == [name |-> name, message |-> message]
Ok(o) == [obj |-> o, err |-> NoErr]
Throw(o, name, message) == [obj |-> o, err |-> Err(name, message)]

\* The fields the constructor sets before it looks at the options.  script,
\* _outpoint and _coin are not set by it and read as undefined.
NewLedgerInput ==
  [ t |-> "input",
    path |-> PathArray(<<>>), coin |-> Null, redeem |-> Null,
    publicKey |-> Null, type |-> Num(HASHTYPE_ALL), script |-> Undefined,
    _ring |-> Null, _key |-> EmptyString, _prev |-> Null, _prevred |-> Null,
    _outpoint |-> Undefined, _coin |-> Undefined ]

\* options: a record of the five properties, Undefined for one left out.
Options(path, type, redeem, coin, publicKey) ==
  [ t |-> "options", path |-> path, type |-> type, redeem |-> redeem,
    coin |-> coin, publicKey |-> publicKey ]

\* fromOptions, the path.
OptPath(o, options) ==
  IF ~Truthy(options.path)
    THEN Throw(o, "AssertionError", "Path is required.")
  ELSE LET parsed == IF IsPathString(options.path)
                       THEN ParsePath(options.path)
                       ELSE [ok |-> TRUE, value |-> options.path]
       IN  IF ~parsed.ok
             THEN Throw(o, "Error", "Invalid path root.")
           ELSE IF ~IsPathArray(parsed.value)
             THEN Throw(o, "AssertionError", "Path must be Array or string")
           ELSE Ok([o EXCEPT !.path = parsed.value])

\* fromOptions, the sighash type.
OptType(o, options) ==
  IF options.type \notin {Null, Undefined}
    THEN IF options.type # Num(HASHTYPE_ALL)
           THEN Ok([o EXCEPT !.type = options.type])
           ELSE Throw(o, "AssertionError", "Ledger only supports SIGHASH_ALL")
    ELSE Ok(o)

\* fromOptions, the redeem script: a Buffer is parsed into a Script.
OptRedeem(o, options) ==
  IF options.redeem \notin {Null, Undefined}
    THEN LET redeem == IF IsBuffer(options.redeem)
                         THEN Script(options.redeem.raw)
                         ELSE options.redeem
         IN  IF IsScript(redeem)
               THEN Ok([o EXCEPT !.redeem = redeem])
               ELSE Throw(o, "AssertionError", "Cannot use non-script redeem.")
    ELSE Ok(o)

\* fromOptions, the coin.
OptCoin(o, options) ==
  IF o.coin \in {Null, Undefined}
    THEN IF IsCoin(options.coin)
           THEN Ok([o EXCEPT !.coin = options.coin])
           ELSE Throw(o, "AssertionError", "LedgerInput needs Coin")
    ELSE Ok(o)

\* fromOptions, the public key.
OptPublicKey(o, options) ==
  IF options.publicKey \notin {Null, Undefined}
    THEN IF IsBuffer(options.publicKey)
           THEN Ok([o EXCEPT !.publicKey = options.publicKey])
           ELSE Throw(o, "AssertionError", "Public key must be Buffer")
    ELSE Ok(o)

\* A slip: the redeem script is asked of the coins that are not script-hash.
OptRequireRedeemWrongCoin(o, options) ==
  IF ~IsScripthash(o.coin.address) /\ ~Truthy(o.redeem)
    THEN Throw(o, "AssertionError", "Cannot sign ScriptHash without redeem.")
    ELSE Ok(o)

\* fromOptions, the last check: a script-hash coin needs a redeem script.
OptRequireRedeem(o, options) ==
  IF IsScripthash(o.coin.address) /\ ~Truthy(o.redeem)
    THEN Throw(o, "AssertionError", "Cannot sign ScriptHash without redeem.")
    ELSE Ok(o)

\* LedgerInput.fromOptions(options) on object o; its first check is that
\* options is given.
FromOptions(o, options) ==
  LET r0 == IF ~Truthy(options)
              THEN Throw(o, "AssertionError", "SignInput data is required.")
              ELSE Ok(o)
      r1 == IF r0.err # NoErr THEN r0 ELSE OptPath(r0.obj, options)
      r2 == IF r1.err # NoErr THEN r1 ELSE OptType(r1.obj, options)
      r3 == IF r2.err # NoErr THEN r2 ELSE OptRedeem(r2.obj, options)
      r4 == IF r3.err # NoErr THEN r3 ELSE OptCoin(r3.obj, options)
      r5 == IF r4.err # NoErr THEN r4 ELSE OptPublicKey(r4.obj, options)
  IN  IF r5.err # NoErr THEN r5 ELSE OptRequireRedeem(r5.obj, options)

\* new LedgerInput(options): fromOptions runs only for truthy options.
Constructor(options) ==
  IF Truthy(options) THEN FromOptions(NewLedgerInput, options)
  ELSE Ok(NewLedgerInput)

\* An accessor call gives the object after the call, the value returned and
\* the exception thrown (NoErr when it returned).
Ret(o, v) == [obj |-> o, ret |-> v, err |-> NoErr]
Raise(o, name, message) ==
  [obj |-> o, ret |-> Undefined, err |-> Err(name, message)]
NullDeref(o) == Raise(o, "TypeError", "Cannot read property of null")

\* A slip: without public key the ring is built from a key of zeros.
GetRingDefaultKey(o) ==
  IF ~Truthy(o._ring)
    THEN LET key == IF Truthy(o.publicKey) THEN o.publicKey
                    ELSE Buffer(Fill(33, 0))
             ring == IF Truthy(o.redeem)
                       THEN [KeyRing(key) EXCEPT !.script = o.redeem]
                       ELSE KeyRing(key)
         IN  Ret([o EXCEPT !._ring = ring], ring)
    ELSE Ret(o, o._ring)

\* A slip: the memoized ring is looked at before the public key.
GetRingCachedFirst(o) ==
  IF Truthy(o._ring) THEN Ret(o, o._ring)
  ELSE IF ~Truthy(o.publicKey)
    THEN Raise(o, "LedgerError", "Cannot return ring without public key")
  ELSE LET ring == IF Truthy(o.redeem)
                     THEN [KeyRing(o.publicKey) EXCEPT !.script = o.redeem]
                     ELSE KeyRing(o.publicKey)
       IN  Ret([o EXCEPT !._ring = ring], ring)

\* getRing().
GetRing(o) ==
  IF ~Truthy(o.publicKey)
    THEN Raise(o, "LedgerError", "Cannot return ring without public key")
  ELSE IF ~Truthy(o._ring)
    THEN LET ring == IF Truthy(o.redeem)
                       THEN [KeyRing(o.publicKey) EXCEPT !.script = o.redeem]
                       ELSE KeyRing(o.publicKey)
         IN  Ret([o EXCEPT !._ring = ring], ring)
  ELSE Ret(o, o._ring)

\* A slip: the previous script is always synthesized from the ring.
GetPrevIgnoresScript(o) ==
  IF ~Truthy(o._prev)
    THEN LET r == GetRing(o)
         IN  IF r.err # NoErr THEN r
             ELSE LET prev == ScriptFromPubkeyhash(KeyHash(r.ret.publicKey))
                  IN  Ret([r.obj EXCEPT !._prev = prev], prev)
    ELSE Ret(o, o._prev)

\* getPrev().
GetPrev(o) ==
  IF ~Truthy(o._prev)
    THEN IF Truthy(o.script)
           THEN Ret([o EXCEPT !._prev = o.script], o.script)
           ELSE LET r == GetRing(o)
                IN  IF r.err # NoErr THEN r
                    ELSE LET prev ==
                               ScriptFromPubkeyhash(KeyHash(r.ret.publicKey))
                         IN  Ret([r.obj EXCEPT !._prev = prev], prev)
    ELSE Ret(o, o._prev)

\* getPrevRedeem().
GetPrevRedeem(o) ==
  IF Truthy(o._prevred) THEN Ret(o, o._prevred)
  ELSE IF o.coin \in {Null, Undefined} THEN NullDeref(o)
  ELSE IF IsScripthash(o.coin.address)
    THEN Ret([o EXCEPT !._prevred = o.redeem], o.redeem)
  ELSE LET r == GetPrev(o)
       IN  IF r.err # NoErr THEN r
           ELSE Ret([r.obj EXCEPT !._prevred = r.ret], r.ret)

\* A slip: the outpoint is built from the coin at every call.
GetOutpointRecomputed(o) ==
  IF o.coin \in {Null, Undefined} THEN NullDeref(o)
  ELSE Ret([o EXCEPT !._outpoint = Outpoint(o.coin.hash, o.coin.index)],
           Outpoint(o.coin.hash, o.coin.index))

\* getOutpoint().
GetOutpoint(o) ==
  IF ~Truthy(o._outpoint)
    THEN IF o.coin \in {Null, Undefined} THEN NullDeref(o)
         ELSE LET op == Outpoint(o.coin.hash, o.coin.index)
              IN  Ret([o EXCEPT !._outpoint = op], op)
    ELSE Ret(o, o._outpoint)

\* toKey().
ToKey(o) ==
  IF ~Truthy(o._key)
    THEN LET r == GetOutpoint(o)
         IN  IF r.err # NoErr THEN r
             ELSE Ret([r.obj EXCEPT !._key = OutpointKey(r.ret)],
                      OutpointKey(r.ret))
    ELSE Ret(o, o._key)

\* refresh().
Refresh(o) ==
  [o EXCEPT !._coin = Null, !._ring = Null, !._key = EmptyString,
            !._prev = Null, !._outpoint = Null]

Accessors == {"getRing", "getPrev", "getPrevRedeem", "getOutpoint", "toKey"}

CallAccessor(a, o) ==
  CASE a = "getRing"       -> GetRing(o)
    [] a = "getPrev"       -> GetPrev(o)
    [] a = "getPrevRedeem" -> GetPrevRedeem(o)
    [] a = "getOutpoint"   -> GetOutpoint(o)
    [] a = "toKey"         -> ToKey(o)

(***************************************************************************)
(* util and apdu, as far as LedgerClient uses them                         *)
(***************************************************************************)

\* util.MAX_TX_PACKET and util.MAX_SCRIPT_PACKET: the largest payload of one
\* transaction chunk and of one script chunk.  The model takes small values
\* so that its transactions and scripts span one to several chunks.
MAX_TX_PACKET == 64
MAX_SCRIPT_PACKET == 10

\* util.splitBuffer(buf, size): consecutive slices of at most size bytes.
RECURSIVE SplitBuffer(_, _)
SplitBuffer(buf, size) ==
  IF Len(buf) = 0 THEN <<>>
  ELSE IF Len(buf) <= size THEN <<buf>>
  ELSE <<SubSeq(buf, 1, size)>> \o SplitBuffer(SubSeq(buf, size + 1, Len(buf)), size)

\* APDUCommand.getAppVersion()
CmdGetAppVersion ==
  Ok([ins |-> "getAppVersion", first |-> TRUE, meta |-> Null, data |-> <<>>])

\* The builders' check of a derivation path: at most MAX_DEPTH indices.
PathTooDeep(path) == Len(path.indices) > MAX_DEPTH

\* APDUCommand.getPublicKey(path, options)
CmdGetPublicKey(path, options) ==
  IF PathTooDeep(path)
    THEN Throw(Null, "AssertionError", "path is too deep")
    ELSE Ok([ins |-> "getPublicKey", first |-> TRUE,
             meta |-> [path |-> path, options |-> options], data |-> <<>>])

\* APDUCommand.parseTX(data, first): first tags the chunk "new message",
\* otherwise it is a continuation.
CmdParseTX(data, first) ==
  Ok([ins |-> "parseTX", first |-> first, meta |-> Null, data |-> data])

\* APDUCommand.getInputSignature(ledgerInput, hsdInput, data, first): the
\* first packet carries the input's path, its coin reference and its sighash
\* type.
CmdGetInputSignature(ledgerInput, hsdInput, data, first) ==
  IF first /\ PathTooDeep(ledgerInput.path)
    THEN Throw(Null, "AssertionError", "path is too deep")
    ELSE Ok([ins |-> "getInputSignature", first |-> first,
             meta |-> IF ledgerInput = Null THEN Null
                      ELSE [path |-> ledgerInput.path,
                            prevout |-> hsdInput.prevout,
                            sequence |-> hsdInput.sequence,
                            value |-> ledgerInput.coin.value,
                            type |-> ledgerInput.type],
             data |-> data])

\* A response: the payload and the terminal status word.
Response(sw, data) == [sw |-> sw, data |-> data]

\* The payload length each kind of success response must have.
VersionLen == 3
PublicKeyLen == 33
SignatureLen == 65

ExpectedLen(kind) ==
  CASE kind = "ack"       -> 0
    [] kind = "version"   -> VersionLen
    [] kind = "publicKey" -> PublicKeyLen
    [] kind = "signature" -> SignatureLen

\* APDUResponse.<instruction>(res): a status word other than SUCCESS throws
\* the error of that status word; a payload of the wrong length is a
\* protocol error; otherwise the payload is the data.  Gives [data, err].
ParseResponse(res, kind) ==
  IF res.sw # status["SUCCESS"]
    THEN [data |-> <<>>,
          err |-> Err("LedgerError", StatusError(res.sw).message),
          code |-> res.sw, kind |-> StatusError(res.sw).kind]
  ELSE IF Len(res.data) # ExpectedLen(kind)
    THEN [data |-> <<>>,
          err |-> Err("LedgerError", "Unexpected response length"),
          code |-> res.sw, kind |-> "LENGTH"]
  ELSE [data |-> res.data, err |-> NoErr, code |-> res.sw, kind |-> "SUCCESS"]

(***************************************************************************)
(* The transaction preamble parseTX serializes                             *)
(***************************************************************************)

MTX(version, locktime, inputs, outputs) ==
  [ t |-> "mtx", version |-> version, locktime |-> locktime,
    inputs |-> inputs, outputs |-> outputs ]
IsMTX(x) == x.t = "mtx"

Input(prevout, sequence) == [prevout |-> prevout, sequence |-> sequence]
Covenant(type, items) == [type |-> type, items |-> items]
Output(value, address, covenant) ==
  [value |-> value, address |-> address, covenant |-> covenant]

\* prevout.getSize() and prevout.write(bw): the hash, then the index.
OutpointSize(o) == Len(o.hash) + 4
OutpointBytes(o) == o.hash \o U32(o.index)

\* address.getSize() and address.write(bw): version, hash length, hash.
AddressSize(a) == 1 + 1 + Len(a.hash)
AddressBytes(a) == <<a.version, Len(a.hash)>> \o a.hash

\* covenant.getVarSize() and covenant.write(bw): type, item count, items.
RECURSIVE ItemsSize(_)
ItemsSize(items) ==
  IF items = <<>> THEN 0
  ELSE SizeVarint(Len(Head(items))) + Len(Head(items)) + ItemsSize(Tail(items))
CovenantVarSize(c) == 1 + SizeVarint(Len(c.items)) + ItemsSize(c.items)
CovenantBytes(c) ==
  <<c.type>> \o Varint(Len(c.items))
    \o Concat([i \in 1..Len(c.items) |-> VarBytes(c.items[i])])

\* The size of all outputs (client.js, outs).
RECURSIVE OutsSize(_)
OutsSize(outputs) ==
  IF outputs = <<>> THEN 0
  ELSE 8 + AddressSize(Head(outputs).address)
         + CovenantVarSize(Head(outputs).covenant) + OutsSize(Tail(outputs))

RECURSIVE InputsSize(_)
InputsSize(inputs) ==
  IF inputs = <<>> THEN 0
  ELSE 4 + OutpointSize(Head(inputs).prevout) + InputsSize(Tail(inputs))

\* The size parseTX allocates (client.js, size).
TxSize(mtx) ==
  8 + SizeVarint(Len(mtx.inputs)) + SizeVarint(Len(mtx.outputs))
    + InputsSize(mtx.inputs)
    + SizeVarint(OutsSize(mtx.outputs)) + OutsSize(mtx.outputs)

\* The bytes parseTX writes.
TxBytes(mtx) ==
  U32(mtx.version) \o U32(mtx.locktime)
    \o Varint(Len(mtx.inputs)) \o Varint(Len(mtx.outputs))
    \o Varint(OutsSize(mtx.outputs))
    \o Concat([i \in 1..Len(mtx.inputs) |->
                 OutpointBytes(mtx.inputs[i].prevout)
                   \o U32(mtx.inputs[i].sequence)])
    \o Concat([i \in 1..Len(mtx.outputs) |->
                 U64(mtx.outputs[i].value)
                   \o AddressBytes(mtx.outputs[i].address)
                   \o CovenantBytes(mtx.outputs[i].covenant)])

(***************************************************************************)
(* LedgerClient (lib/ledger/client.js).  An operation is an async call; it *)
(* runs from its call, or from the return of device.exchange, up to its    *)
(* next device.exchange or its end.                                        *)
(***************************************************************************)

Procs == {"A", "B"}

\* An operation that has not been called.
ProcIdle ==
  [ op |-> "", pc |-> "idle", args |-> Null,
    chunks |-> <<>>,    \* what splitBuffer returned
    msgs |-> <<>>,      \* the chunks not sent yet (msgs in the code)
    last |-> <<>>,      \* the chunk popped as last
    phase |-> "",       \* the chunk whose response is awaited
    interp |-> <<>>,    \* how each response was interpreted
    resps |-> <<>>,     \* what each exchange gave: a status word, or Thrown
    aborted |-> {},     \* the operations that had failed when it was called
    result |-> Null, err |-> NoErr ]

\* An exchange that threw, in resps.
Thrown == 0 - 1

\* The outcome of a run of code: the operation after it, the LedgerInput
\* after it and the command handed to device.exchange, Null for none.
Step(proc, obj, send) == [proc |-> proc, obj |-> obj, send |-> send]

\* The operation awaits device.exchange(cmd).
Await(proc, obj, cmd, phase) ==
  Step([proc EXCEPT !.pc = "awaiting", !.phase = phase], obj, cmd)

\* The operation ends by an exception.
Fail(proc, obj, err) ==
  Step([proc EXCEPT !.pc = "failed", !.err = err, !.phase = ""], obj, Null)

\* The operation returns.
Return(proc, obj, value) ==
  Step([proc EXCEPT !.pc = "done", !.result = value, !.phase = ""], obj, Null)

Called(op, args) == [ProcIdle EXCEPT !.op = op, !.args = args]

\* getAppVersion(), up to its exchange.
BeginGetAppVersion(obj) ==
  Await(Called("getAppVersion", Null), obj, CmdGetAppVersion.obj, "only")

\* A slip: the command is sent before the path is checked.
BeginGetPublicKeyUnchecked(path, options, obj) ==
  LET proc == Called("getPublicKey", [path |-> path, options |-> options])
  IN  Await(proc, obj,
            [ins |-> "getPublicKey", first |-> TRUE,
             meta |-> [path |-> path, options |-> options], data |-> <<>>],
            "only")

\* getPublicKey: options defaults to an empty object and is given the
\* client's network type.
WithNetwork(options) ==
  LET opts == IF Truthy(options) THEN options ELSE [t |-> "options"]
  IN  [k \in DOMAIN opts \cup {"network"} |->
         IF k = "network" THEN "main" ELSE opts[k]]

\* getPublicKey(path, options), up to its exchange.
BeginGetPublicKey(path, options, obj) ==
  LET proc == Called("getPublicKey", [path |-> path, options |-> options])
      parsed == IF IsPathString(path) THEN ParsePath(path)
                ELSE [ok |-> TRUE, value |-> path]
  IN  IF ~parsed.ok
        THEN Fail(proc, obj, Err("Error", "Invalid path root."))
      ELSE IF ~IsPathArray(parsed.value)
        THEN Fail(proc, obj,
                  Err("AssertionError", "path must be a String or Array"))
      ELSE LET cmd == CmdGetPublicKey(parsed.value, WithNetwork(options))
           IN  IF cmd.err # NoErr THEN Fail(proc, obj, cmd.err)
               ELSE Await(proc, obj, cmd.obj, "only")

IsMap(x) == x.t = "map"

\* A slip: the inputs that have no ledger input in the map are left out of
\* what is serialized.
BeginParseTXOfMapped(mtx, ledgerInputByKey, obj) ==
  LET proc == Called("parseTX",
                     [mtx |-> mtx, ledgerInputByKey |-> ledgerInputByKey])
  IN  IF ~IsMTX(mtx)
        THEN Fail(proc, obj, Err("AssertionError", "mtx must be instanceof MTX"))
      ELSE IF ~IsMap(ledgerInputByKey)
        THEN Fail(proc, obj,
                  Err("AssertionError", "ledgerInputByKey must be instanceof Map"))
      ELSE LET mapped == SelectSeq(mtx.inputs,
                  LAMBDA i : OutpointKey(i.prevout) \in ledgerInputByKey.keys)
               msgs == SplitBuffer(TxBytes([mtx EXCEPT !.inputs = mapped]),
                                   MAX_TX_PACKET)
               fst == Head(msgs)
           IN  Await([proc EXCEPT !.chunks = msgs, !.msgs = Tail(msgs)],
                     obj, CmdParseTX(fst, TRUE).obj, "first")

\* parseTX(mtx, ledgerInputByKey), up to its first exchange.
BeginParseTX(mtx, ledgerInputByKey, obj) ==
  LET proc == Called("parseTX",
                     [mtx |-> mtx, ledgerInputByKey |-> ledgerInputByKey])
  IN  IF ~IsMTX(mtx)
        THEN Fail(proc, obj, Err("AssertionError", "mtx must be instanceof MTX"))
      ELSE IF ~IsMap(ledgerInputByKey)
        THEN Fail(proc, obj,
                  Err("AssertionError", "ledgerInputByKey must be instanceof Map"))
      ELSE LET msgs == SplitBuffer(TxBytes(mtx), MAX_TX_PACKET)
               fst == Head(msgs)
           IN  Await([proc EXCEPT !.chunks = msgs, !.msgs = Tail(msgs)],
                     obj, CmdParseTX(fst, TRUE).obj, "first")

\* getInputSignature(ledgerInput, hsdInput), up to its first exchange;
\* obj is the ledgerInput.
BeginGetInputSignature(hsdInput, obj) ==
  LET proc == Called("getInputSignature", [hsdInput |-> hsdInput])
      raw == GetPrevRedeem(obj)
  IN  IF raw.err # NoErr THEN Fail(proc, raw.obj, raw.err)
      ELSE IF ~Truthy(raw.ret)
        THEN Fail(proc, raw.obj,
                  Err("TypeError", "Cannot read property of null"))
      ELSE LET script == VarBytes(raw.ret.raw)
               msgs == SplitBuffer(script, MAX_SCRIPT_PACKET)
               first == Head(msgs)
               split == [proc EXCEPT !.chunks = msgs, !.msgs = Tail(msgs)]
               cmd == CmdGetInputSignature(raw.obj, hsdInput, first, TRUE)
           IN  IF cmd.err # NoErr THEN Fail(split, raw.obj, cmd.err)
               ELSE Await(split, raw.obj, cmd.obj, "first")

\* The operation after it took a response as kind.
Seen(proc, kind) == [proc EXCEPT !.interp = Append(proc.interp, kind)]

\* A response taken as the result of the operation: the operation fails on
\* a response that does not parse and returns its data otherwise.
ExpectResult(proc, obj, res, kind) ==
  LET r == ParseResponse(res, kind)
  IN  IF r.err # NoErr THEN Fail(Seen(proc, kind), obj, r.err)
      ELSE Return(Seen(proc, kind), obj, Buffer(r.data))

\* A slip: the chunks of the loop are tagged as new messages.
ParseTXNextAsNew(msg) == CmdParseTX(msg, TRUE).obj

\* parseTX: the packet of a chunk of the loop, a continuation.
ParseTXNext(msg) == CmdParseTX(msg, FALSE).obj

\* parseTX after an acknowledged chunk: the next chunk of the loop, or the
\* end.
ParseTXGoOn(q, obj) ==
  IF q.msgs = <<>> THEN Return(q, obj, Undefined)
  ELSE Await([q EXCEPT !.msgs = Tail(q.msgs)], obj,
             ParseTXNext(Head(q.msgs)), "rest")

\* A slip: parseTX goes on with the next chunk whatever the response was.
AfterParseTXUnchecked(proc, obj, res) == ParseTXGoOn(Seen(proc, "ack"), obj)

\* parseTX after the response to a chunk.
AfterParseTX(proc, obj, res) ==
  LET r == ParseResponse(res, "ack")
  IN  IF r.err # NoErr THEN Fail(Seen(proc, "ack"), obj, r.err)
      ELSE ParseTXGoOn(Seen(proc, "ack"), obj)

\* A slip: the packets after the first are built like the first.
NextScriptPacketAsFirst(q, obj) ==
  IF q.msgs # <<>>
    THEN Await([q EXCEPT !.msgs = Tail(q.msgs)], obj,
               CmdGetInputSignature(obj, q.args.hsdInput, Head(q.msgs),
                                    TRUE).obj,
               "middle")
    ELSE Await(q, obj,
               CmdGetInputSignature(obj, q.args.hsdInput, q.last, TRUE).obj,
               "last")

\* getInputSignature: the next packet after an acknowledged one: the next
\* of the intermediate packets, and after them the last one.
NextScriptPacket(q, obj) ==
  IF q.msgs # <<>>
    THEN Await([q EXCEPT !.msgs = Tail(q.msgs)], obj,
               CmdGetInputSignature(Null, Null, Head(q.msgs), FALSE).obj,
               "middle")
    ELSE Await(q, obj,
               CmdGetInputSignature(Null, Null, q.last, FALSE).obj, "last")

\* A slip: the response to the first packet is always taken as the
\* signature.
FirstResponseKindAlwaysSignature(msgs) == "signature"

\* getInputSignature: what the response to the first packet is taken as.
FirstResponseKind(msgs) == IF Len(msgs) = 0 THEN "signature" ELSE "ack"

\* getInputSignature after the response to a packet that expects nothing:
\* after the first packet the last one is popped off msgs.
AfterAck(proc, obj, res) ==
  LET r == ParseResponse(res, "ack")
      q == Seen(proc, "ack")
  IN  IF r.err # NoErr THEN Fail(q, obj, r.err)
      ELSE IF proc.phase = "first"
        THEN NextScriptPacket(
               [q EXCEPT !.last = q.msgs[Len(q.msgs)],
                         !.msgs = SubSeq(q.msgs, 1, Len(q.msgs) - 1)],
               obj)
      ELSE NextScriptPacket(q, obj)

\* getInputSignature after the response to a packet.
AfterGetInputSignature(proc, obj, res) ==
  CASE proc.phase = "first" ->
         IF FirstResponseKind(proc.msgs) = "signature"
           THEN ExpectResult(proc, obj, res, "signature")
           ELSE AfterAck(proc, obj, res)
    [] proc.phase = "middle" -> AfterAck(proc, obj, res)
    [] proc.phase = "last" -> ExpectResult(proc, obj, res, "signature")

\* A slip: getAppVersion asks again when the answer is not a success.
AfterExchangeAsksAgain(proc, obj, res) ==
  CASE proc.op = "getAppVersion" ->
         IF res.sw # status["SUCCESS"]
           THEN Await(proc, obj, CmdGetAppVersion.obj, "only")
           ELSE ExpectResult(proc, obj, res, "version")
    [] proc.op = "getPublicKey" -> ExpectResult(proc, obj, res, "publicKey")
    [] proc.op = "parseTX" -> AfterParseTX(proc, obj, res)
    [] proc.op = "getInputSignature" -> AfterGetInputSignature(proc, obj, res)

\* The code that runs when device.exchange returns res.
AfterExchange(proc, obj, res) ==
  CASE proc.op = "getAppVersion" -> ExpectResult(proc, obj, res, "version")
    [] proc.op = "getPublicKey" -> ExpectResult(proc, obj, res, "publicKey")
    [] proc.op = "parseTX" -> AfterParseTX(proc, obj, res)
    [] proc.op = "getInputSignature" -> AfterGetInputSignature(proc, obj, res)

\* A slip: the request is sent again when device.exchange throws.
AfterExchangeThrowsRetry(proc, obj, err, cmd) ==
  Step(proc, obj, cmd)

\* The code that runs when device.exchange throws err (cmd is the request
\* it was given): the exception leaves the operation.
AfterExchangeThrows(proc, obj, err, cmd) == Fail(proc, obj, err)

(***************************************************************************)
(* The values the operations are driven with                               *)
(***************************************************************************)

\* Bounds of the model.
MaxMutations == 2   \* assignments to the fields and fromOptions calls on one LedgerInput

PubKey1 == Buffer(<<2>> \o Fill(32, 17))
PubKey2 == Buffer(<<3>> \o Fill(32, 34))

\* Redeem scripts of 3, 14 and 30 bytes.
RedeemShort == Script(<<81, 81, 174>>)
RedeemMid == Script(Fill(13, 82) \o <<174>>)
RedeemLong == Script(Fill(29, 83) \o <<174>>)

CoinPKH == Coin(Fill(32, 170), 0, 1000, Address(0, KeyHash(PubKey1)))
CoinSH == Coin(Fill(32, 187), 1, 2000, Address(0, Fill(32, 204)))

\* m/44'/5353'/0'/0/0 as a string and as an array, a string with a bad
\* root, and arrays of MAX_DEPTH and MAX_DEPTH + 1 indices.
PathStr ==
  PathString("m", << Part(<<4, 4>>, TRUE), Part(<<5, 3, 5, 3>>, TRUE),
                     Part(<<0>>, TRUE), Part(<<0>>, FALSE), Part(<<0>>, FALSE) >>)
PathBadStr == PathString("x", << Part(<<0>>, FALSE) >>)
PathArr ==
  PathArray(<< Index(44, TRUE), Index(5353, TRUE), Index(0, TRUE),
               Index(0, FALSE), Index(0, FALSE) >>)
PathMax == PathArray([i \in 1..MAX_DEPTH |-> Index(i, FALSE)])
PathDeep == PathArray([i \in 1..(MAX_DEPTH + 1) |-> Index(i, FALSE)])

OptionPaths ==
  {Undefined, PathOther, PathZero, PathStr, PathBadStr, PathMax, PathDeep}
OptionTypes == {Undefined, Num(HASHTYPE_ALL), Num(HASHTYPE_NONE)}
OptionRedeems == {Undefined, RedeemShort, Buffer(RedeemMid.raw), Num(7)}
OptionCoins == {Undefined, CoinPKH, CoinSH}
OptionKeys == {Undefined, PubKey1, Num(7)}

InputOptions ==
  { Options(p, ty, r, c, k) :
      p \in OptionPaths, ty \in OptionTypes, r \in OptionRedeems,
      c \in OptionCoins, k \in OptionKeys }

\* The options of the inputs whose accessors are exercised.
LiveOptions ==
  { Options(PathStr, Undefined, r, c, k) :
      r \in {Undefined, RedeemShort}, c \in {CoinPKH, CoinSH},
      k \in {Undefined, PubKey1} }

\* The options given to fromOptions on an input that exists: a redeem script
\* and no coin, the same with a public key that is no Buffer (refused after
\* the redeem script is set), and a script-hash coin with another path and
\* key.
AgainOptions ==
  { Options(PathStr, Undefined, RedeemShort, Undefined, Undefined),
    Options(PathStr, Undefined, RedeemShort, Undefined, Num(7)),
    Options(PathMax, Undefined, Undefined, CoinSH, PubKey2) }

\* The inputs signatures are asked for: a public-key-hash coin with its key
\* (a 25-byte script), script-hash coins with redeem scripts of three
\* lengths, an input whose path has MAX_DEPTH + 1 indices, and a
\* public-key-hash coin without public key.
ClientOptions ==
  { Options(PathStr, Undefined, Undefined, CoinPKH, PubKey1),
    Options(PathStr, Undefined, RedeemShort, CoinSH, Undefined),
    Options(PathMax, Undefined, RedeemMid, CoinSH, Undefined),
    Options(PathStr, Undefined, RedeemLong, CoinSH, PubKey1),
    Options(PathDeep, Undefined, RedeemShort, CoinSH, Undefined),
    Options(PathStr, Undefined, Undefined, CoinPKH, Undefined) }

\* The hsd input that spends the coin of a LedgerInput.
HsdInput(obj) == Input(Outpoint(obj.coin.hash, obj.coin.index), 1)

\* Transactions of 11, 83 and 205 serialized bytes.
TxEmpty == MTX(0, 0, <<>>, <<>>)
TxOne ==
  MTX(0, 0, << Input(Outpoint(CoinPKH.hash, CoinPKH.index), 1) >>,
            << Output(5000, Address(0, Fill(20, 17)), Covenant(0, <<>>)) >>)
TxTwo ==
  MTX(1, 300,
      << Input(Outpoint(CoinPKH.hash, CoinPKH.index), 1),
         Input(Outpoint(CoinSH.hash, CoinSH.index), 2) >>,
      << Output(70000, Address(0, Fill(32, 204)), Covenant(0, <<>>)),
         Output(1, Address(0, Fill(20, 17)),
                Covenant(2, << Fill(32, 9), <<1, 2, 3, 4>> >>)) >>)

ClientTxs == {TxEmpty, TxOne, TxTwo, Num(7)}

\* ledgerInputByKey: a Map from the keys of outpoints to ledger inputs; an
\* empty one, one that holds the input spending the public-key-hash coin,
\* and a value that is no Map.
MapOf(keys) == [t |-> "map", keys |-> keys]
MapEmpty == MapOf({})
MapPKH == MapOf({OutpointKey(Outpoint(CoinPKH.hash, CoinPKH.index))})
ClientMaps == {MapEmpty, MapPKH, Num(7)}

ClientPaths == {PathStr, PathBadStr, PathOther, PathMax, PathDeep}

\* What the device answers: success with an empty payload, a version, a
\* public key or a signature; the status words 0x6985, 0x6a82 and 0x6d00;
\* a status word the table does not hold (0x1234).
ErrorWords == {27013, 27266, 27904, 4660}
DeviceResponses ==
  { Response(status["SUCCESS"], d) :
      d \in {<<>>, Fill(VersionLen, 1), Fill(PublicKeyLen, 2),
             Fill(SignatureLen, 48)} }
  \cup { Response(sw, <<>>) : sw \in ErrorWords }

\* What device.exchange throws: a timeout, a malformed frame.
DeviceErrors ==
  { Err("Error", "Request timed out."), Err("Error", "Malformed frame.") }

\* An explicit previous script.
ScriptGiven == Script(<<81, 172>>)

\* What callers assign to the public fields after construction.
FieldValues ==
  [ path |-> {PathArr, PathMax}, coin |-> {CoinPKH, CoinSH},
    redeem |-> {RedeemMid}, publicKey |-> {PubKey2, Null},
    script |-> {ScriptGiven} ]

(***************************************************************************)
(* LedgerInput as a state machine: construction, the accessors, direct     *)
(* assignment to the fields, refresh                                       *)
(***************************************************************************)

NoCall ==
  [ acc |-> "", ret |-> Undefined, err |-> NoErr, fresh |-> Undefined,
    freshErr |-> NoErr, afterRefresh |-> FALSE, prev |-> Undefined,
    before |-> Null, coherent |-> FALSE ]

\* obs.last: the accessor call just made, if the last step was one: what it
\* returned or threw, what a computation from the fields alone gives,
\* whether it was the accessor's first call after a refresh, what the
\* accessor returned before, the object the call was made on, and whether
\* no field had been assigned since the construction or the last refresh.
\* obs.pending: the accessors not called since the last refresh.
\* obs.clean: a refresh happened and no field was assigned since.
\* obs.since: per accessor, what it returned since the last refresh.
\* obs.muts: the number of direct assignments made.
ObsInit ==
  [ last |-> NoCall, pending |-> {}, since |-> [a \in Accessors |-> Undefined],
    clean |-> FALSE, muts |-> 0 ]

CtorNone == [status |-> "none", options |-> Undefined, err |-> NoErr]

\* The object with every memoized value dropped.
ClearCaches(o) ==
  [o EXCEPT !._ring = Null, !._key = EmptyString, !._prev = Null,
            !._prevred = Null, !._outpoint = Null]

ClientIdle == <<procs, inflight, wire, codec, cli>>

\* new LedgerInput(options)
Construct(options) ==
  /\ li = Null
  /\ LET r == Constructor(options)
     IN  /\ li' = IF r.err = NoErr THEN r.obj ELSE Null
         /\ ctor' = [status |-> IF r.err = NoErr THEN "ok" ELSE "error",
                     options |-> options, err |-> r.err]
  /\ UNCHANGED <<obs, resp, ClientIdle>>

\* static LedgerInput.fromOptions(options): new this().fromOptions(options)
ConstructStatic(options) ==
  /\ li = Null
  /\ LET r == FromOptions(Constructor(Undefined).obj, options)
     IN  /\ li' = IF r.err = NoErr THEN r.obj ELSE Null
         /\ ctor' = [status |-> IF r.err = NoErr THEN "ok" ELSE "error",
                     options |-> options, err |-> r.err]
  /\ UNCHANGED <<obs, resp, ClientIdle>>

\* li.getRing(), li.getPrev(), li.getPrevRedeem(), li.getOutpoint(),
\* li.toKey()
Call(a) ==
  /\ li # Null
  /\ LET r == CallAccessor(a, li)
         f == CallAccessor(a, ClearCaches(li))
     IN  /\ li' = r.obj
         /\ obs' = [obs EXCEPT
               !.last = [acc |-> a, ret |-> r.ret, err |-> r.err,
                         fresh |-> f.ret, freshErr |-> f.err,
                         afterRefresh |-> a \in obs.pending /\ obs.clean,
                         prev |-> obs.since[a],
                         before |-> li,
                         coherent |-> obs.muts = 0 \/ obs.clean],
               !.pending = obs.pending \ {a},
               !.since[a] = IF r.err = NoErr THEN r.ret ELSE obs.since[a]]
  /\ UNCHANGED <<ctor, resp, ClientIdle>>

\* li.path = v, li.coin = v, li.redeem = v, li.publicKey = v, li.script = v
Assign(field, v) ==
  /\ li # Null
  /\ obs.muts < MaxMutations
  /\ li[field] # v
  /\ li' = [li EXCEPT ![field] = v]
  /\ obs' = [obs EXCEPT !.last = NoCall, !.muts = obs.muts + 1,
                        !.clean = FALSE]
  /\ UNCHANGED <<ctor, resp, ClientIdle>>

\* li.fromOptions(options) on the input that exists: the fields the options
\* give are set, up to the first check that fails; the caches stay.
CallFromOptions(options) ==
  /\ li # Null
  /\ obs.muts < MaxMutations
  /\ li' = FromOptions(li, options).obj
  /\ obs' = [obs EXCEPT !.last = NoCall, !.muts = obs.muts + 1,
                        !.clean = FALSE]
  /\ UNCHANGED <<ctor, resp, ClientIdle>>

\* li.refresh()
CallRefresh ==
  /\ li # Null
  /\ li' = Refresh(li)
  /\ obs' = [obs EXCEPT !.last = NoCall, !.pending = Accessors,
                        !.clean = TRUE,
                        !.since = [a \in Accessors |-> Undefined]]
  /\ UNCHANGED <<ctor, resp, ClientIdle>>

\* No message in the codec.
CodecIdle ==
  [ stage |-> "idle", message |-> <<>>, frames |-> <<>>, read |-> 0,
    decoder |-> DecoderInit ]

NoOut == [data |-> <<>>, err |-> NoErr, code |-> 0, kind |-> ""]
RespNone == [stage |-> "none", sw |-> 0, out |-> NoOut]

\* bin/hsd-ledger is not running.
CliIdle ==
  [ pc |-> "idle", help |-> FALSE, version |-> FALSE, cmd |-> "",
    nargs |-> 0, id |-> "hsd-ledger", opened |-> FALSE,
    closeCalled |-> FALSE, err |-> "", code |-> -1 ]

\* No object yet: the state before new LedgerInput(options).
InitCtor ==
  /\ li = Null
  /\ ctor = CtorNone
  /\ obs = ObsInit
  /\ resp = RespNone
  /\ procs = <<>>
  /\ inflight = {}
  /\ wire = <<>>
  /\ codec = CodecIdle
  /\ cli = CliIdle

NextCtor ==
  \E options \in InputOptions \cup {Undefined} :
    \/ Construct(options)
    \/ ConstructStatic(options)

\* Construction alone, over every combination of the options.
SpecCtor == InitCtor /\ [][NextCtor]_vars

\* The constructed inputs: the results of new LedgerInput(options) that did
\* not throw.
Constructed(optionSet) ==
  { Constructor(o).obj : o \in {x \in optionSet : Constructor(x).err = NoErr} }

InitInput ==
  /\ li \in Constructed(LiveOptions \cup {Undefined})
  /\ ctor = CtorNone
  /\ obs = ObsInit
  /\ resp = RespNone
  /\ procs = <<>>
  /\ inflight = {}
  /\ wire = <<>>
  /\ codec = CodecIdle
  /\ cli = CliIdle

NextInput ==
  \/ \E a \in Accessors : Call(a)
  \/ \E field \in DOMAIN FieldValues :
       \E v \in FieldValues[field] : Assign(field, v)
  \/ \E options \in AgainOptions : CallFromOptions(options)
  \/ CallRefresh

\* A constructed input under accessor calls, assignments and refresh.
SpecInput == InitInput /\ [][NextInput]_vars

(***************************************************************************)
(* The client and its device as a state machine                            *)
(***************************************************************************)

InputIdle == <<ctor, obs, resp, codec, cli>>

\* The run of code step, made by operation p: its command, if it sends one,
\* goes to device.exchange, which accepts every call.
Apply(p, step, outstanding) ==
  /\ procs' = [procs EXCEPT ![p] =
       IF procs[p].pc = "idle"
         THEN [step.proc EXCEPT
                 !.aborted = {q \in Procs : procs[q].pc = "failed"}]
         ELSE step.proc]
  /\ li' = step.obj
  /\ IF step.send # Null
       THEN /\ wire' = [wire EXCEPT ![p] = Append(wire[p], step.send)]
            /\ inflight' = outstanding \cup {p}
       ELSE /\ wire' = wire
            /\ inflight' = outstanding
  /\ UNCHANGED InputIdle

\* client.getAppVersion()
CallGetAppVersion(p) ==
  /\ procs[p].pc = "idle"
  /\ Apply(p, BeginGetAppVersion(li), inflight)

\* client.getPublicKey(path, options)
CallGetPublicKey(p, path) ==
  /\ procs[p].pc = "idle"
  /\ Apply(p, BeginGetPublicKey(path, Undefined, li), inflight)

\* client.parseTX(mtx, ledgerInputByKey)
CallParseTX(p, mtx, ledgerInputByKey) ==
  /\ procs[p].pc = "idle"
  /\ Apply(p, BeginParseTX(mtx, ledgerInputByKey, li), inflight)

\* client.getInputSignature(li, hsdInput)
CallGetInputSignature(p) ==
  /\ procs[p].pc = "idle"
  /\ Apply(p, BeginGetInputSignature(HsdInput(li), li), inflight)

\* device.exchange returns res to operation p.
ExchangeReturns(p, res) ==
  /\ p \in inflight
  /\ Apply(p, AfterExchange([procs[p] EXCEPT !.resps = Append(@, res.sw)],
                            li, res),
           inflight \ {p})

\* device.exchange throws err in operation p.
ExchangeThrows(p, err) ==
  /\ p \in inflight
  /\ Apply(p, AfterExchangeThrows([procs[p] EXCEPT !.resps = Append(@, Thrown)],
                                  li, err, wire[p][Len(wire[p])]),
           inflight \ {p})

InitClient ==
  /\ li \in Constructed(ClientOptions)
  /\ ctor = CtorNone
  /\ obs = ObsInit
  /\ resp = RespNone
  /\ procs = [p \in Procs |-> ProcIdle]
  /\ inflight = {}
  /\ wire = [p \in Procs |-> <<>>]
  /\ codec = CodecIdle
  /\ cli = CliIdle

NextClient ==
  \E p \in Procs :
    \/ CallGetAppVersion(p)
    \/ \E path \in ClientPaths : CallGetPublicKey(p, path)
    \/ \E mtx \in ClientTxs, m \in ClientMaps : CallParseTX(p, mtx, m)
    \/ CallGetInputSignature(p)
    \/ \E res \in DeviceResponses : ExchangeReturns(p, res)
    \/ \E err \in DeviceErrors : ExchangeThrows(p, err)

\* Two operations of one client on one device.
SpecClient == InitClient /\ [][NextClient]_vars

(***************************************************************************)
(* The interpretation of a response's status word                          *)
(***************************************************************************)

\* The status words of the table, each of them with its high byte raised
\* by one, and the ends of the 2-byte range.
StatusWords ==
  {status[n] : n \in DOMAIN status}
    \cup {status[n] + 256 : n \in DOMAIN status} \cup {0, 65535}

\* A response with status word resp.sw is turned into its result: no error
\* for SUCCESS, the error of the status word otherwise.
InterpretStatus ==
  /\ resp.stage = "raw"
  /\ resp' = [resp EXCEPT
        !.stage = "parsed",
        !.out = ParseResponse(Response(resp.sw, <<>>), "ack")]
  /\ UNCHANGED <<li, ctor, obs, procs, inflight, wire, codec, cli>>

InitStatus ==
  /\ resp \in [stage : {"raw"}, sw : StatusWords, out : {NoOut}]
  /\ li = Null
  /\ ctor = CtorNone
  /\ obs = ObsInit
  /\ procs = <<>>
  /\ inflight = {}
  /\ wire = <<>>
  /\ codec = CodecIdle
  /\ cli = CliIdle

NextStatus == InterpretStatus

SpecStatus == InitStatus /\ [][NextStatus]_vars

(***************************************************************************)
(* A message through the frame codec                                       *)
(***************************************************************************)

\* The lengths of the messages carried.
MessageLengths == {0, 1, 63, 64, 65, 1000}

\* Messages of n bytes: zeros, 0xff, bytes that count up from 1 and wrap at
\* 251, and bytes that count down from 255.
Ramp(n) == [i \in 1..n |-> i % 251]
Slope(n) == [i \in 1..n |-> 255 - ((i - 1) % 256)]
Messages ==
  UNION { {Fill(n, 0), Fill(n, 255), Ramp(n), Slope(n)} :
            n \in MessageLengths }

\* The sender encodes the message; its frames wait for the decoder.
EncodeMessage ==
  /\ codec.stage = "message"
  /\ codec' = [codec EXCEPT !.stage = "framed",
                             !.frames = Encode(codec.message, TAG_APDU)]
  /\ UNCHANGED <<resp, li, ctor, obs, procs, inflight, wire, cli>>

\* The decoder reads the next frame.
DeliverFrame ==
  /\ codec.stage = "framed"
  /\ codec.read < Len(codec.frames)
  /\ codec.decoder.status = "more"
  /\ codec' = [codec EXCEPT
        !.read = codec.read + 1,
        !.decoder = DecodeFrame(codec.decoder, codec.frames[codec.read + 1],
                                TAG_APDU)]
  /\ UNCHANGED <<resp, li, ctor, obs, procs, inflight, wire, cli>>

InitCodec ==
  /\ codec \in [stage : {"message"}, message : Messages, frames : {<<>>},
                 read : {0}, decoder : {DecoderInit}]
  /\ resp = RespNone
  /\ li = Null
  /\ ctor = CtorNone
  /\ obs = ObsInit
  /\ procs = <<>>
  /\ inflight = {}
  /\ wire = <<>>
  /\ cli = CliIdle

NextCodec == EncodeMessage \/ DeliverFrame

SpecCodec == InitCodec /\ [][NextCodec]_vars

(***************************************************************************)
(* bin/hsd-ledger: a run of main()                                         *)
(***************************************************************************)

VALID_CMDS ==
  << "createwallet", "createaccount", "createaddress", "sendtoaddress",
     "getwallets", "getaccounts", "getaccount", "getbalance" >>

\* The number of arguments each command function accepts: the check of
\* args.length at its head.
Arity ==
  [ createwallet |-> 1, createaccount |-> 2, createaddress |-> 0,
    sendtoaddress |-> 2, getwallets |-> 0, getaccounts |-> 0,
    getaccount |-> 1, getbalance |-> 0 ]

\* The message of the error a command function throws on a wrong number of
\* arguments.
ArityMessage(cmd) ==
  IF cmd \in {"getwallets", "getaccounts"} THEN "Too many arguments"
  ELSE "Invalid arguments"

IsValidCmd(cmd) == \E i \in 1..Len(VALID_CMDS) : VALID_CMDS[i] = cmd

\* process.exit(code): the process ends here; no finally block and no
\* pending continuation runs after it.
ProcessExit(c, code) == [c EXCEPT !.pc = "exited", !.code = code]

\* main().catch: the promise of main() was rejected with err; usage(err),
\* then process.exit(1).
MainCatch(c, err) == ProcessExit([c EXCEPT !.err = err], 1)

\* The finally block begins: wclient.close() is called, with the exception
\* of the try block (rethrown by catch) pending, if any.
Finally(c, err) == [c EXCEPT !.pc = "wclient.close", !.err = err]

\* After device.open(): the configuration is loaded, the command and its
\* arguments are taken from argv; the help flag and the version flag, with
\* no argument left after the command, print and exit; otherwise the
\* clients are constructed and nclient.open() is called.
AfterDeviceOpen(c) ==
  IF c.help /\ c.nargs = 0 THEN ProcessExit(c, 0)
  ELSE IF c.version /\ c.nargs = 0 THEN ProcessExit(c, 0)
  ELSE [c EXCEPT !.pc = "nclient.open"]

\* The switch over cmd: a valid command is called with args, and throws at
\* once on a wrong number of arguments; anything else prints the usage and
\* exits.
Switch(c) ==
  IF IsValidCmd(c.cmd)
    THEN IF c.nargs = Arity[c.cmd]
           THEN [c EXCEPT !.pc = "command"]
           ELSE Finally(c, ArityMessage(c.cmd))
    ELSE ProcessExit([c EXCEPT !.err = "Must provide valid command."], 1)

\* After wclient.getWallets(): a wallet id that is not listed is an error
\* unless it is the default one, which is created first.
AfterGetWallets(c, listed) ==
  IF ~listed
    THEN IF c.id # "hsd-ledger"
           THEN Finally(c, "Wallet \"" \o c.id \o "\" does not exist.")
           ELSE [c EXCEPT !.pc = "createWallet"]
    ELSE Switch(c)

\* The end of main(): the exception of the try block, if any, leaves main()
\* after the finally block; otherwise process.exit(0).
AfterFinally(c) ==
  IF c.err # "" THEN MainCatch(c, c.err) ELSE ProcessExit(c, 0)

\* Device.requestDevice() returns, device.open() is called.
DeviceRequested ==
  /\ cli.pc = "requestDevice"
  /\ \E ok \in BOOLEAN :
       cli' = IF ok THEN [cli EXCEPT !.pc = "device.open"]
              ELSE MainCatch(cli, "requestDevice failed")
  /\ UNCHANGED <<resp, li, ctor, obs, procs, inflight, wire, codec>>

\* device.open() returns.
DeviceOpened ==
  /\ cli.pc = "device.open"
  /\ \E ok \in BOOLEAN :
       cli' = IF ok THEN AfterDeviceOpen([cli EXCEPT !.opened = TRUE])
              ELSE MainCatch(cli, "device.open failed")
  /\ UNCHANGED <<resp, li, ctor, obs, procs, inflight, wire, codec>>

\* nclient.open() returns, outside the try block; wclient.open() is called.
NodeOpened ==
  /\ cli.pc = "nclient.open"
  /\ \E ok \in BOOLEAN :
       cli' = IF ok THEN [cli EXCEPT !.pc = "wclient.open"]
              ELSE MainCatch(cli, "nclient.open failed")
  /\ UNCHANGED <<resp, li, ctor, obs, procs, inflight, wire, codec>>

\* wclient.open() returns, outside the try block; the try block is entered
\* and wclient.getWallets() is called.
WalletOpened ==
  /\ cli.pc = "wclient.open"
  /\ \E ok \in BOOLEAN :
       cli' = IF ok THEN [cli EXCEPT !.pc = "getWallets"]
              ELSE MainCatch(cli, "wclient.open failed")
  /\ UNCHANGED <<resp, li, ctor, obs, procs, inflight, wire, codec>>

\* wclient.getWallets() returns.
WalletsListed ==
  /\ cli.pc = "getWallets"
  /\ \E ok \in BOOLEAN, listed \in BOOLEAN :
       cli' = IF ok THEN AfterGetWallets(cli, listed)
              ELSE Finally(cli, "getWallets failed")
  /\ UNCHANGED <<resp, li, ctor, obs, procs, inflight, wire, codec>>

\* createWallet for the default wallet returns.
DefaultWalletCreated ==
  /\ cli.pc = "createWallet"
  /\ \E ok \in BOOLEAN :
       cli' = IF ok THEN Switch(cli)
              ELSE Finally(cli, "createWallet failed")
  /\ UNCHANGED <<resp, li, ctor, obs, procs, inflight, wire, codec>>

\* The command function returns or throws.
CommandReturned ==
  /\ cli.pc = "command"
  /\ \E ok \in BOOLEAN :
       cli' = IF ok THEN Finally(cli, "")
              ELSE Finally(cli, "command failed")
  /\ UNCHANGED <<resp, li, ctor, obs, procs, inflight, wire, codec>>

\* finally: wclient.close() returns, nclient.close() is called.
WalletClosed ==
  /\ cli.pc = "wclient.close"
  /\ \E ok \in BOOLEAN :
       cli' = IF ok THEN [cli EXCEPT !.pc = "nclient.close"]
              ELSE MainCatch(cli, "wclient.close failed")
  /\ UNCHANGED <<resp, li, ctor, obs, procs, inflight, wire, codec>>

\* finally: nclient.close() returns, device.close() is called.
NodeClosed ==
  /\ cli.pc = "nclient.close"
  /\ \E ok \in BOOLEAN :
       cli' = IF ok THEN [cli EXCEPT !.pc = "device.close",
                                      !.closeCalled = TRUE]
              ELSE MainCatch(cli, "nclient.close failed")
  /\ UNCHANGED <<resp, li, ctor, obs, procs, inflight, wire, codec>>

\* finally: device.close() returns; the finally block is left.
DeviceClosed ==
  /\ cli.pc = "device.close"
  /\ \E ok \in BOOLEAN :
       cli' = IF ok THEN AfterFinally(cli)
              ELSE MainCatch(cli, "device.close failed")
  /\ UNCHANGED <<resp, li, ctor, obs, procs, inflight, wire, codec>>

\* The command lines: the flags, a command (valid, unknown or none), up to
\* MaxArgs arguments after it, the default wallet id or another.
MaxArgs == 2
CliCommands == { VALID_CMDS[i] : i \in 1..Len(VALID_CMDS) } \cup {"bogus", ""}
CommandLines ==
  { c \in [ pc : {"requestDevice"}, help : BOOLEAN, version : BOOLEAN,
            cmd : CliCommands, nargs : 0..MaxArgs,
            id : {"hsd-ledger", "other"}, opened : {FALSE},
            closeCalled : {FALSE}, err : {""}, code : {-1} ] :
      c.cmd = "" => c.nargs = 0 }

\* main() was called and waits for Device.requestDevice().
InitCli ==
  /\ cli \in CommandLines
  /\ resp = RespNone
  /\ li = Null
  /\ ctor = CtorNone
  /\ obs = ObsInit
  /\ procs = <<>>
  /\ inflight = {}
  /\ wire = <<>>
  /\ codec = CodecIdle

NextCli ==
  \/ DeviceRequested
  \/ DeviceOpened
  \/ NodeOpened
  \/ WalletOpened
  \/ WalletsListed
  \/ DefaultWalletCreated
  \/ CommandReturned
  \/ WalletClosed
  \/ NodeClosed
  \/ DeviceClosed

SpecCli == InitCli /\ [][NextCli]_vars

(***************************************************************************)
(* Claims about LedgerInput: construction (SpecCtor)                       *)
(***************************************************************************)

\* A construction from an options object has been attempted.
Attempted == ctor.status # "none" /\ ctor.options # Undefined

\* C5: constructing a LedgerInput with the sighash type ALL succeeds as far
\* as the type is concerned, any other type is a construction error, and so
\* every constructed input has type ALL.  Stated on the outcome of
\* new LedgerInput(options): the sighash error is raised only for a type
\* other than ALL, and an input that was constructed holds type ALL.
C5_OnlySighashAll ==
  Attempted =>
    /\ (ctor.err.message = "Ledger only supports SIGHASH_ALL"
          => ctor.options.type # Num(HASHTYPE_ALL))
    /\ (ctor.status = "ok" => li.type = Num(HASHTYPE_ALL))

\* Options for a script-hash coin that are well formed but for the redeem
\* script: a path that is an array or a string with root m, the sighash
\* type ALL or none given (ALL by default), a redeem script that is missing,
\* a Script or a Buffer, a Buffer or no public key.
ScripthashOptions ==
  /\ Attempted
  /\ ctor.options.path \in {PathStr, PathMax, PathDeep}
  /\ ctor.options.type \in {Undefined, Num(HASHTYPE_ALL)}
  /\ ctor.options.redeem \in {Undefined, RedeemShort, Buffer(RedeemMid.raw)}
  /\ ctor.options.coin = CoinSH
  /\ ctor.options.publicKey \in {Undefined, PubKey1}

\* C7: constructing a LedgerInput for a script-hash coin without a redeem
\* script fails with 'Cannot sign ScriptHash without redeem.'; with a redeem
\* script it succeeds and the input holds that script.
C7_ScripthashNeedsRedeem ==
  ScripthashOptions =>
    IF ctor.options.redeem = Undefined
      THEN /\ ctor.status = "error"
           /\ ctor.err = Err("AssertionError",
                             "Cannot sign ScriptHash without redeem.")
           /\ li = Null
      ELSE /\ ctor.status = "ok"
           /\ li.redeem = Script(ctor.options.redeem.raw)

(***************************************************************************)
(* Claims about LedgerInput: the caches (SpecInput)                        *)
(***************************************************************************)

\* C6: refresh() clears all memoized values together: the first call of an
\* accessor after a refresh, the fields not having been assigned since the
\* refresh, gives what a computation from the current fields gives (the same
\* value, or the same exception), never a value cached before the refresh.
C6_RefreshClearsAll ==
  obs.last.afterRefresh =>
    /\ obs.last.ret = obs.last.fresh
    /\ obs.last.err = obs.last.freshErr

(***************************************************************************)
(* Claims about LedgerClient (SpecClient)                                  *)
(***************************************************************************)

\* The operations of kind op that reached their chunking.
Chunked(op) == {p \in Procs : procs[p].op = op /\ procs[p].chunks # <<>>}

\* The payloads operation p handed to device.exchange, in order.
Payloads(p) == [i \in 1..Len(wire[p]) |-> wire[p][i].data]

\* Operation p sent its chunks in order, each at most once.
SentInOrder(p) ==
  /\ Len(wire[p]) <= Len(procs[p].chunks)
  /\ Payloads(p) = SubSeq(procs[p].chunks, 1, Len(wire[p]))

\* The size-prefixed previous-redeem script of the LedgerInput.
PrefixedScript == VarBytes(li._prevred.raw)

\* C1: getInputSignature, for a size-prefixed previous-redeem script that
\* splits into n >= 1 chunks of at most MAX_SCRIPT_PACKET bytes: the
\* responses to chunks 1..n-1 are taken as empty acknowledgements and the
\* response to chunk n as the signature (for n = 1 the single response is the
\* signature); the operation returns exactly when n responses were
\* successes, after exactly n exchanges, and returns the signature of the
\* last response.
C1_SignatureAfterNExchanges ==
  \A p \in Chunked("getInputSignature") :
    LET n == Len(procs[p].chunks)
        q == procs[p]
    IN  /\ Concat(q.chunks) = PrefixedScript
        /\ \A i \in 1..n : Len(q.chunks[i]) \in 1..MAX_SCRIPT_PACKET
        /\ SentInOrder(p)
        /\ Len(q.interp) <= n
        /\ \A i \in 1..Len(q.interp) :
             q.interp[i] = IF i < n THEN "ack" ELSE "signature"
        /\ q.pc = "done" =>
             /\ Len(wire[p]) = n
             /\ Len(q.interp) = n
             /\ q.result = Buffer(Fill(SignatureLen, 48))
        /\ (Len(q.resps) = n /\ q.err = NoErr) => q.pc = "done"

\* C1 witness: a signature was returned for a script of three or more
\* chunks, after as many exchanges.
C1_Witness ==
  \E p \in Chunked("getInputSignature") :
    /\ procs[p].pc = "done"
    /\ Len(procs[p].chunks) >= 3
    /\ Len(wire[p]) = Len(procs[p].chunks)

\* C2: parseTX: once the response to the chunk at position k is not a
\* success, the operation has failed with the error of that status word,
\* exactly k exchanges have occurred and none is outstanding: no chunk after
\* position k is sent.
C2_ParseTXAbortsOnError ==
  \A p \in Chunked("parseTX") :
    \A k \in 1..Len(procs[p].resps) :
      (procs[p].resps[k] \notin {status["SUCCESS"], Thrown}) =>
        /\ procs[p].pc = "failed"
        /\ procs[p].err =
             Err("LedgerError", StatusError(procs[p].resps[k]).message)
        /\ Len(procs[p].resps) = k
        /\ Len(wire[p]) = k
        /\ p \notin inflight

\* C2 witness: the second of three or more chunks was answered by 0x6985
\* and parseTX failed after two exchanges.
C2_Witness ==
  \E p \in Chunked("parseTX") :
    /\ Len(procs[p].chunks) >= 3
    /\ procs[p].resps = <<status["SUCCESS"], 27013>>
    /\ procs[p].pc = "failed"
    /\ Len(wire[p]) = 2

\* C3: parseTX splits the serialized preamble into chunks of at most
\* MAX_TX_PACKET bytes and sends them in buffer order, one exchange per
\* chunk, the first tagged new message and every other one continuation;
\* when it returns, the number of exchanges is the number of chunks and the
\* payloads sent concatenate to the serialized buffer.
C3_ParseTXChunksInOrder ==
  \A p \in Chunked("parseTX") :
    LET q == procs[p]
        buf == TxBytes(q.args.mtx)
    IN  /\ Len(buf) = TxSize(q.args.mtx)
        /\ Concat(q.chunks) = buf
        /\ \A i \in 1..Len(q.chunks) : Len(q.chunks[i]) \in 1..MAX_TX_PACKET
        /\ SentInOrder(p)
        /\ \A i \in 1..Len(wire[p]) :
             /\ wire[p][i].ins = "parseTX"
             /\ wire[p][i].first = (i = 1)
        /\ q.pc = "done" =>
             /\ Len(wire[p]) = Len(q.chunks)
             /\ Concat(Payloads(p)) = buf
             /\ \A i \in 1..Len(q.resps) : q.resps[i] = status["SUCCESS"]

\* C3 witness: a transaction of three or more chunks was streamed to the
\* end.
C3_Witness ==
  \E p \in Chunked("parseTX") :
    /\ procs[p].pc = "done"
    /\ Len(procs[p].chunks) >= 3
    /\ Len(wire[p]) = Len(procs[p].chunks)

\* C4: exactly one exchange is in flight per device at any time: a second
\* exchange is never handed to the transport while a first is outstanding.
C4_OneExchangeInFlight == Cardinality(inflight) <= 1

\* The path an operation gives to its command builder has more than
\* MAX_DEPTH indices.
DeepPath(path) ==
  \/ IsPathArray(path) /\ Len(path.indices) > MAX_DEPTH
  \/ IsPathString(path) /\ path.root = "m" /\ Len(path.parts) > MAX_DEPTH

\* C8: a derivation path of more than MAX_DEPTH indices is rejected before
\* any exchange: getPublicKey with such a path, and getInputSignature for a
\* LedgerInput holding such a path, fail without a call of device.exchange.
C8_DeepPathNeverSent ==
  \A p \in Procs :
    /\ (procs[p].op = "getPublicKey" /\ DeepPath(procs[p].args.path)) =>
         /\ procs[p].pc = "failed"
         /\ wire[p] = <<>>
         /\ p \notin inflight
    /\ (procs[p].op = "getInputSignature" /\ DeepPath(li.path)) =>
         /\ procs[p].pc = "failed"
         /\ wire[p] = <<>>
         /\ p \notin inflight

\* C8 witness: getPublicKey was called with a path of MAX_DEPTH + 1 indices
\* and getInputSignature for an input holding such a path; both failed.
C8_Witness ==
  \E p, q \in Procs :
    /\ procs[p].op = "getPublicKey" /\ procs[p].args.path = PathDeep
    /\ procs[p].pc = "failed"
    /\ procs[q].op = "getInputSignature" /\ li.path = PathDeep
    /\ procs[q].pc = "failed"

\* C9: no automatic retry: when device.exchange throws in parseTX or
\* getInputSignature at exchange k, the operation has failed with that
\* error, exactly k exchanges were issued, none is outstanding, and no chunk
\* was sent twice.
C9_NoRetry ==
  \A p \in Chunked("parseTX") \cup Chunked("getInputSignature") :
    /\ SentInOrder(p)
    /\ \A k \in 1..Len(procs[p].resps) :
         procs[p].resps[k] = Thrown =>
           /\ procs[p].pc = "failed"
           /\ procs[p].err \in DeviceErrors
           /\ Len(procs[p].resps) = k
           /\ Len(wire[p]) = k
           /\ p \notin inflight

\* C9 witness: device.exchange threw at the second chunk of a
\* getInputSignature of three or more chunks.
C9_Witness ==
  \E p \in Chunked("getInputSignature") :
    /\ Len(procs[p].chunks) >= 3
    /\ procs[p].resps = <<status["SUCCESS"], Thrown>>
    /\ procs[p].pc = "failed"

(***************************************************************************)
(* Claims about the status tables (SpecStatus)                             *)
(***************************************************************************)

NonSuccessNames == DOMAIN status \ {"SUCCESS"}

\* C10: every status word of the table other than SUCCESS maps to its own
\* named kind and its message, never to the generic 'Unknown status code':
\* errorByStatus has an entry for every name of status but SUCCESS, and
\* 0x6985, 0x6a82 and 0x6d00 give the kinds and messages documented.
C10_TableWordsHaveMessages ==
  /\ \A n \in NonSuccessNames : ErrorMessage(n) # Undefined
  /\ (resp.stage = "parsed" /\ \E n \in NonSuccessNames : status[n] = resp.sw)
       => /\ resp.out.kind \in NonSuccessNames
          /\ status[resp.out.kind] = resp.sw
          /\ resp.out.err.message = errorByStatus[resp.out.kind]
          /\ resp.out.err.message # "Unknown status code"
  /\ (resp.stage = "parsed" /\ resp.sw = 27013)
       => /\ resp.out.kind = "CONDITIONS_OF_USE_NOT_SATISFIED"
          /\ resp.out.err.message = "User rejected on-screen confirmation"
  /\ (resp.stage = "parsed" /\ resp.sw = 27266)
       => /\ resp.out.kind = "FILE_NOT_FOUND"
          /\ resp.out.err.message = "File not found"
  /\ (resp.stage = "parsed" /\ resp.sw = 27904)
       => /\ resp.out.kind = "INS_NOT_SUPPORTED"
          /\ resp.out.err.message =
               "Instruction not supported (check app on the device)"

\* C10 witness: a response with status word 0x6d00 was interpreted.
C10_Witness ==
  /\ resp.stage = "parsed"
  /\ resp.sw = 27904
  /\ resp.out.kind = "INS_NOT_SUPPORTED"

\* The status words common.status holds.
TableWords == {status[n] : n \in DOMAIN status}

\* C11: the status table is one-to-one between status words and names: no
\* two names of common.status share a code, statusByVal[status[N]] = N for
\* every name N, every code is a 2-byte word (0..0xffff), and a response
\* whose terminal status word is the code of N is interpreted as N.
C11_StatusTableOneToOne ==
  /\ {statusNames[i] : i \in 1..Len(statusNames)} = DOMAIN status
  /\ \A n, m \in DOMAIN status : status[n] = status[m] => n = m
  /\ \A n \in DOMAIN status : statusByVal(status[n]) = Str(n)
  /\ \A n \in DOMAIN status : status[n] \in 0..65535
  /\ (resp.stage = "parsed" /\ resp.sw \in TableWords)
       => /\ resp.out.kind \in DOMAIN status
          /\ status[resp.out.kind] = resp.sw
          /\ resp.out.code = resp.sw

\* C11 witness: responses ending in the smallest code of the table (0x006f,
\* INTERNAL_ERROR) and in SUCCESS are interpreted as these names.
C11_Witness ==
  /\ resp.stage = "parsed"
  /\ resp.sw = status["INTERNAL_ERROR"]
  /\ resp.out.kind = "INTERNAL_ERROR"
  /\ statusByVal(status["SUCCESS"]) = Str("SUCCESS")

\* C12: a response whose status word is neither SUCCESS nor any code of the
\* table gives a typed error (LedgerError) that carries the raw code and the
\* generic message 'Unknown status code', and nothing else.
C12_UnknownWordGenericError ==
  (resp.stage = "parsed" /\ resp.sw \notin TableWords)
    => /\ resp.out.err = Err("LedgerError", "Unknown status code")
       /\ resp.out.code = resp.sw
       /\ resp.out.kind = "UNKNOWN_ERROR"
       /\ resp.out.data = <<>>

\* C12 witness: responses ending in 0x7027 (a table word with its high byte
\* raised) and in 0xffff got the generic error with their code.
C12_Witness ==
  /\ resp.stage = "parsed"
  /\ resp.sw \in {28711, 65535}
  /\ resp.out.err.message = "Unknown status code"
  /\ resp.out.code = resp.sw

(***************************************************************************)
(* Claims about the derived values of LedgerInput (SpecInput)              *)
(***************************************************************************)

\* The accessor a was just called.
JustCalled(a) == obs.last.acc = a

MissingPublicKey == Err("LedgerError", "Cannot return ring without public key")

\* C13: getPrevRedeem returns the redeem script when the coin address is
\* script-hash and otherwise exactly what getPrev returns (or throws) for
\* the same input state.  Stated for the calls made on an input none of
\* whose fields was assigned since its construction or its last refresh.
C13_PrevRedeemFollowsCoin ==
  ( /\ JustCalled("getPrevRedeem")
    /\ obs.last.coherent
    /\ obs.last.before.coin \notin {Null, Undefined} )
  => IF IsScripthash(obs.last.before.coin.address)
       THEN /\ obs.last.err = NoErr
            /\ obs.last.ret = obs.last.before.redeem
       ELSE /\ obs.last.err = GetPrev(obs.last.before).err
            /\ obs.last.ret = GetPrev(obs.last.before).ret

\* C14: getPrev returns the explicit script of the input (its field script)
\* when there is one, also without public key, and only when there is none
\* synthesizes the pay-to-public-key-hash script of the key ring's key hash;
\* fromOptions sets no script, so a constructed input synthesizes.  Stated
\* for the calls that compute (no memoized previous script) and, with the
\* key hash being that of the input's public key, for the calls made on an
\* input not assigned to since its construction or its last refresh.
C14_PrevExplicitElseSynthesized ==
  JustCalled("getPrev") =>
    LET o == obs.last.before
        ring == GetRing(o)
    IN  /\ ~Truthy(o._prev) =>
             IF Truthy(o.script)
               THEN obs.last.err = NoErr /\ obs.last.ret = o.script
             ELSE IF ring.err # NoErr
               THEN obs.last.err = MissingPublicKey
             ELSE /\ obs.last.err = NoErr
                  /\ obs.last.ret =
                       ScriptFromPubkeyhash(KeyHash(ring.ret.publicKey))
        /\ obs.last.coherent =>
             IF Truthy(o.script)
               THEN obs.last.err = NoErr /\ obs.last.ret = o.script
             ELSE IF ~Truthy(o.publicKey)
               THEN obs.last.err = MissingPublicKey
             ELSE /\ obs.last.err = NoErr
                  /\ obs.last.ret = ScriptFromPubkeyhash(KeyHash(o.publicKey))
        /\ (obs.muts = 0 /\ obs.last.err = NoErr) =>
             obs.last.ret = ScriptFromPubkeyhash(KeyHash(o.publicKey))

\* C14 witness: an input holding a public key was given an explicit script
\* and getPrev returned that script, not the synthesized one.
C14_Witness ==
  /\ JustCalled("getPrev")
  /\ Truthy(obs.last.before.publicKey)
  /\ ~Truthy(obs.last.before._prev)
  /\ obs.last.before.script = ScriptGiven
  /\ obs.last.ret = ScriptGiven

\* C15: getRing on an input without public key throws the LedgerError
\* 'Cannot return ring without public key', returns nothing and leaves the
\* input as it was, also when a ring is memoized; with a public key it
\* builds the ring from the key (with the redeem script, if any) when none
\* is memoized, memoizes it, and otherwise returns the memoized ring, the
\* one its earlier calls returned.
C15_RingNeedsPublicKey ==
  JustCalled("getRing") =>
    LET o == obs.last.before
    IN  IF ~Truthy(o.publicKey)
          THEN /\ obs.last.err = MissingPublicKey
               /\ obs.last.ret = Undefined
               /\ li = o
        ELSE IF ~Truthy(o._ring)
          THEN /\ obs.last.err = NoErr
               /\ obs.last.ret =
                    [ t |-> "ring", publicKey |-> o.publicKey,
                      script |-> IF Truthy(o.redeem) THEN o.redeem ELSE Null ]
               /\ li = [o EXCEPT !._ring = obs.last.ret]
               /\ obs.last.prev = Undefined
        ELSE /\ obs.last.err = NoErr
             /\ obs.last.ret = o._ring
             /\ obs.last.prev # Undefined => obs.last.ret = obs.last.prev
             /\ li = o

\* C15 witness: getRing threw on an input whose public key had been taken
\* away while a ring was memoized.
C15_Witness ==
  /\ JustCalled("getRing")
  /\ obs.last.before.publicKey = Null
  /\ Truthy(obs.last.before._ring)
  /\ obs.last.err = MissingPublicKey

\* C19, as stated: once an accessor has returned a value, every later call
\* of it before the next refresh returns that value, whatever was assigned
\* to path, coin, redeem or publicKey in between.
C19_MemoizedUntilRefresh ==
  (obs.last.acc # "" /\ obs.last.prev # Undefined)
    => /\ obs.last.err = NoErr
       /\ obs.last.ret = obs.last.prev

\* C19, amended: once an accessor has returned a value other than null,
\* every later call of it before the next refresh returns that value,
\* whatever was assigned in between, except that getRing throws the
\* missing-public-key error while publicKey is null.
C19_MemoizedUnlessKeyRemoved ==
  (obs.last.acc # "" /\ Truthy(obs.last.prev))
    => IF JustCalled("getRing") /\ ~Truthy(obs.last.before.publicKey)
         THEN obs.last.err = MissingPublicKey
         ELSE /\ obs.last.err = NoErr
              /\ obs.last.ret = obs.last.prev

\* C19 witness: getPrev returned the script it had returned before, although
\* the public key was replaced in between and a computation from the fields
\* gives another script.
C19_Witness ==
  /\ JustCalled("getPrev")
  /\ Truthy(obs.last.prev)
  /\ obs.last.ret = obs.last.prev
  /\ obs.last.fresh # obs.last.ret
  /\ obs.last.before.publicKey = PubKey2

(***************************************************************************)
(* Claims about the frame codec (SpecCodec)                                *)
(***************************************************************************)

\* C16: frame codec round trip with frames of 64 bytes, channel id 0x0101
\* and tag 0x05 (TAG_APDU), for messages of 0, 1, 63, 64, 65 and 1000 bytes:
\* every frame is 64 bytes and starts with the channel id and the tag, the
\* first frame has sequence index 0 and carries the 2-byte total length,
\* the sequence indices of the following frames go up by one, the decoder
\* has the message exactly when it has read all the frames, and the message
\* it has is the message encoded.
C16_FrameRoundTrip ==
  codec.stage = "framed" =>
    LET f == codec.frames
        d == codec.decoder
    IN  /\ Len(codec.message) \in {0, 1, 63, 64, 65, 1000}
        /\ Len(f) >= 1
        /\ \A i \in 1..Len(f) :
             /\ Len(f[i]) = 64
             /\ SubSeq(f[i], 1, 3) = <<1, 1, 5>>
             /\ ReadBE2(f[i], 4) = i - 1
        /\ ReadBE2(f[1], 6) = Len(codec.message)
        /\ d.status # "error"
        /\ d.status = "done" <=> codec.read = Len(f)
        /\ d.status = "done" => d.buf = codec.message

\* C16 witness: a message of 1000 bytes came out of the decoder as it went
\* into the encoder, after 17 frames.
C16_Witness ==
  /\ codec.stage = "framed"
  /\ codec.message = Ramp(1000)
  /\ codec.decoder.status = "done"
  /\ codec.decoder.buf = codec.message
  /\ codec.read = 17

(***************************************************************************)
(* Claims about the requests of LedgerClient (SpecClient)                  *)
(***************************************************************************)

\* The operations of kind op that were called.
Invoked(op) == {p \in Procs : procs[p].op = op}

\* The metadata of the first packet of getInputSignature for the input.
InputMeta ==
  [ path |-> li.path, prevout |-> HsdInput(li).prevout,
    sequence |-> HsdInput(li).sequence, value |-> li.coin.value,
    type |-> li.type ]

\* C17: in every invocation of getInputSignature the first packet sent, and
\* only the first, is built with the input's metadata and the first flag
\* set; every later packet (middle or last) carries no metadata and has the
\* first flag clear, whatever the number of chunks; and the first packet of
\* every invocation carries the first chunk of the script, also when an
\* earlier invocation was aborted part-way.
C17_FirstPacketOnlyFlagged ==
  \A p \in Invoked("getInputSignature") :
    /\ \A i \in 1..Len(wire[p]) :
         /\ wire[p][i].ins = "getInputSignature"
         /\ wire[p][i].first = (i = 1)
         /\ wire[p][i].meta = IF i = 1 THEN InputMeta ELSE Null
    /\ wire[p] # <<>> =>
         /\ procs[p].chunks = SplitBuffer(PrefixedScript, MAX_SCRIPT_PACKET)
         /\ wire[p][1].data = Head(procs[p].chunks)
    /\ procs[p].pc \in {"awaiting", "done"} => wire[p] # <<>>

\* C17 witness: an invocation for a script of three or more chunks was
\* aborted after its second packet; the next invocation, called after that,
\* sent the first-flagged packet with the first chunk and then its second
\* packet, unflagged.
C17_Witness ==
  \E p, q \in Invoked("getInputSignature") :
    /\ procs[p].pc = "failed"
    /\ Len(wire[p]) = 2
    /\ Len(procs[p].chunks) >= 3
    /\ p \in procs[q].aborted
    /\ Len(wire[q]) = 2
    /\ wire[q][1].first /\ wire[q][1].meta = InputMeta
    /\ ~wire[q][2].first /\ wire[q][2].meta = Null

\* The input's coin is not script-hash and the input has no public key and
\* no explicit script.
NoKeyForPrev ==
  /\ ~IsScripthash(li.coin.address)
  /\ ~Truthy(li.publicKey)
  /\ ~Truthy(li.script)

\* C18: getInputSignature for an input whose coin is not script-hash and
\* that has no public key fails with the LedgerError 'Cannot return ring
\* without public key' without any call of device.exchange.  The input is
\* constructed with nothing memoized, and such a call memoizes no previous
\* script either, so this holds for every invocation.
C18_MissingKeyFailsFast ==
  NoKeyForPrev =>
    /\ ~Truthy(li._prev)
    /\ ~Truthy(li._prevred)
    /\ \A p \in Invoked("getInputSignature") :
         /\ procs[p].pc = "failed"
         /\ procs[p].err = MissingPublicKey
         /\ wire[p] = <<>>
         /\ procs[p].resps = <<>>
         /\ p \notin inflight

\* C18 witness: getInputSignature was called for such an input and failed.
C18_Witness ==
  /\ NoKeyForPrev
  /\ \E p \in Invoked("getInputSignature") :
       procs[p].pc = "failed" /\ wire[p] = <<>>

\* C20: getAppVersion and getPublicKey hand exactly one command to
\* device.exchange per invocation and take exactly one response: none is
\* sent after the first, they return after one successful exchange, and
\* they fail either before the exchange or on its outcome; getPublicKey
\* with a path that is neither a string nor an array fails with 'path must
\* be a String or Array' before any exchange.
C20_OneExchangePerQuery ==
  \A p \in Invoked("getAppVersion") \cup Invoked("getPublicKey") :
    LET q == procs[p]
    IN  /\ Len(wire[p]) <= 1
        /\ Len(q.resps) <= Len(wire[p])
        /\ \A i \in 1..Len(wire[p]) : wire[p][i].ins = q.op
        /\ q.op = "getAppVersion" => Len(wire[p]) = 1
        /\ q.pc = "awaiting" <=> (p \in inflight)
        /\ q.pc = "awaiting" => Len(wire[p]) = 1 /\ q.resps = <<>>
        /\ q.pc = "done" =>
             /\ Len(wire[p]) = 1
             /\ q.resps = <<status["SUCCESS"]>>
        /\ q.pc = "failed" => Len(q.resps) = Len(wire[p])
        /\ (q.op = "getPublicKey" /\ ~IsPathString(q.args.path)
              /\ ~IsPathArray(q.args.path))
             => /\ q.pc = "failed"
                /\ q.err = Err("AssertionError",
                                "path must be a String or Array")
                /\ wire[p] = <<>>

\* C20 witness: a getPublicKey returned after its one exchange and a
\* getPublicKey with a number for path failed without exchange.
C20_Witness ==
  \E p, q \in Invoked("getPublicKey") :
    /\ procs[p].pc = "done" /\ Len(wire[p]) = 1
    /\ procs[q].args.path = PathOther
    /\ procs[q].pc = "failed" /\ wire[q] = <<>>

\* The input is as new LedgerInput(options) made it from an options object,
\* up to its memoized values.
ConstructedFromOptions ==
  \E o \in LiveOptions :
    /\ Constructor(o).err = NoErr
    /\ \A f \in {"path", "coin", "redeem", "publicKey", "type", "script"} :
         li[f] = Constructor(o).obj[f]

\* getPrevRedeem just returned a script, the redeem script if the coin is
\* script-hash, or threw the missing-public-key error on a coin that is not
\* script-hash.
ScriptOrMissingKey ==
  \/ /\ obs.last.err = NoErr
     /\ IsScript(obs.last.ret)
     /\ li.coin \notin {Null, Undefined}
     /\ IsScripthash(li.coin.address) => obs.last.ret = li.redeem
  \/ /\ obs.last.err = MissingPublicKey
     /\ li.coin \notin {Null, Undefined}
     /\ ~IsScripthash(li.coin.address)
     /\ ~Truthy(li.publicKey)

\* C21, as stated: on any successfully constructed input whose fields were
\* not assigned afterwards, getPrevRedeem returns a script (never null),
\* the redeem script for a script-hash coin, with or without public key, or
\* throws the missing-public-key error.
C21_PrevRedeemNeverNull ==
  (JustCalled("getPrevRedeem") /\ obs.muts = 0) => ScriptOrMissingKey

\* C21, amended: the same for the inputs constructed from an options
\* object; new LedgerInput() without options has no coin, and getPrevRedeem
\* on it throws a TypeError.
C21_PrevRedeemNeverNullFromOptions ==
  (JustCalled("getPrevRedeem") /\ obs.muts = 0)
    => IF ConstructedFromOptions THEN ScriptOrMissingKey
       ELSE obs.last.err.name = "TypeError"

\* C21 witness: getPrevRedeem returned the redeem script of a script-hash
\* coin on an input without public key, not assigned to since construction.
C21_Witness ==
  /\ JustCalled("getPrevRedeem")
  /\ obs.muts = 0
  /\ ConstructedFromOptions
  /\ IsScripthash(li.coin.address)
  /\ ~Truthy(li.publicKey)
  /\ obs.last.ret = RedeemShort

\* What parseTX p has streamed so far is the beginning of the chunks of the
\* serialization of its mtx, first chunk flagged, whatever its map; two
\* parseTX of one mtx stream the same commands.
StreamOfMtx(p) ==
  /\ procs[p].chunks = SplitBuffer(TxBytes(procs[p].args.mtx), MAX_TX_PACKET)
  /\ Len(wire[p]) <= Len(procs[p].chunks)
  /\ \A i \in 1..Len(wire[p]) :
       wire[p][i] = CmdParseTX(procs[p].chunks[i], i = 1).obj
  /\ \A q \in Chunked("parseTX") :
       procs[q].args.mtx = procs[p].args.mtx
         => \A i \in 1..Len(wire[p]) :
              i <= Len(wire[q]) => wire[q][i] = wire[p][i]

\* A step leaves the arguments of a parseTX that was called as they are,
\* and a step of parseTX leaves the ledger input as it is.
ArgumentsKept(p) ==
  /\ procs[p].op = "parseTX" => procs'[p].args = procs[p].args
  /\ (procs'[p].op = "parseTX" /\ procs'[p] # procs[p]) => li' = li

\* C23: parseTX leaves mtx and ledgerInputByKey unchanged (and the ledger
\* inputs with them), and what it streams is the serialization of mtx
\* alone, the same for every map.
C23_ParseTXFrame ==
  /\ [](\A p \in Chunked("parseTX") : StreamOfMtx(p))
  /\ [][\A p \in Procs : ArgumentsKept(p)]_vars

\* C23 witness: two parseTX of the two-input transaction, one with the
\* empty map and one with a map that holds an input, have both returned
\* after streaming the same commands, arguments as passed.
C23_Witness ==
  /\ \A p \in Procs : procs[p].op = "parseTX" /\ procs[p].pc = "done"
  /\ procs["A"].args = [mtx |-> TxTwo, ledgerInputByKey |-> MapEmpty]
  /\ procs["B"].args = [mtx |-> TxTwo, ledgerInputByKey |-> MapPKH]
  /\ Len(wire["A"]) = Len(procs["A"].chunks)
  /\ wire["A"] = wire["B"]

(***************************************************************************)
(* Claims about bin/hsd-ledger (SpecCli)                                   *)
(***************************************************************************)

\* C22: whenever the process has exited after device.open() succeeded, on
\* whatever path through main(), device.close() has been called.
C22_DeviceClosedBeforeExit ==
  (cli.pc = "exited" /\ cli.opened) => cli.closeCalled

====
